---------------------------- MODULE Spec2Model ----------------------------
(***************************************************************************)
(* A model of mgit's identity-bound hash chain: the hash function          *)
(* (mcommit.go), the commit operation, the reconstruction of the identity  *)
(* graph on clone, the verification of the chain and the revision          *)
(* resolver.                                                               *)
(*                                                                         *)
(* Data is modelled at the width the code uses.  A byte is a number in     *)
(* 0..255, text is the sequence of its ASCII codes, a native hash          *)
(* (plumbing.Hash) is a sequence of 20 bytes and its String() form the     *)
(* sequence of its 40 hexadecimal characters.  SHA-1 itself is modelled as *)
(* an ideal (collision-free) digest: Sha1Sum tags the digested stream, so  *)
(* two digests are equal exactly when the streams are.                     *)
(***************************************************************************)
EXTENDS Integers, Sequences, FiniteSets, TLC

VARIABLES
    hcall,      \* the two recorded calls of computeMGitHash (pure-function harness)
    env,        \* ambient process state at a call: config pubkey, wall clock
    git,        \* the native repository: commit objects, branch references, HEAD
    mgit,       \* the .mgit directory: objects, refs/heads, HEAD, hash_mappings.json
    ret,        \* what the last operation returned, and what it did on the way
    created,    \* native hash -> the identity hash MGitCommit produced for it
    rrepo,      \* the repository a revision is resolved in: commits, references, HEAD
    rconf,      \* the configuration and the mappings the resolver reads
    res,        \* the recorded call of resolveRevision
    call,       \* a call of a command-line function: its name, its inputs, its position
    out         \* what that call has returned and done so far

varsHash == <<hcall, env>>
varsRepo == <<git, mgit, ret, created>>
varsResolve == <<rrepo, rconf, res>>
varsCall == <<call, out>>
vars == <<varsHash, varsRepo, varsResolve, varsCall>>

-----------------------------------------------------------------------------
(* Text and byte helpers                                                   *)

\* ASCII codes used by the format strings of mcommit.go
SP == 32
LT == 60
GT == 62
MINUS == 45
ZERO == 48

\* plumbing.Hash is [20]byte
HashSize == 20

\* the byte that opens an ideal digest
DigestTag == 255

RECURSIVE FormatNat(_)
\* decimal digits of a natural, most significant first
FormatNat(n) ==
    IF n < 10 THEN <<ZERO + n>>
    ELSE FormatNat(n \div 10) \o <<ZERO + (n % 10)>>

\* fmt's %d verb
FormatInt(n) == IF n < 0 THEN <<MINUS>> \o FormatNat(-n) ELSE FormatNat(n)

RECURSIVE Concat(_)
\* the elements of a list of byte strings, one after the other
Concat(ss) == IF ss = <<>> THEN <<>> ELSE Head(ss) \o Concat(Tail(ss))

\* the hash whose 20 bytes are all b
HashOf(b) == [i \in 1..HashSize |-> b]

-----------------------------------------------------------------------------
(* computeMGitHash (src/mcommit.go:90-128)                                 *)

\* hasher.Write: the hasher digests what it is given, in the order given
Write(h, p) == h \o p

\* the loop over commit.ParentHashes
WriteParentsSkipped(h, parents) == h

WriteParentsReversed(h, parents) ==
    Write(h, Concat([i \in 1..Len(parents) |-> parents[Len(parents) + 1 - i]]))

WriteParents(h, parents) == Write(h, Concat(parents))

\* fmt.Sprintf("%s <%s> %d %s", name, email, when, pubkey)
authorStrNoKey(commit, pubkey) ==
    commit.Author.Name \o <<SP, LT>> \o commit.Author.Email \o <<GT, SP>>
        \o FormatInt(commit.Author.When)

authorStr(commit, pubkey) ==
    commit.Author.Name \o <<SP, LT>> \o commit.Author.Email \o <<GT, SP>>
        \o FormatInt(commit.Author.When) \o <<SP>> \o pubkey

\* fmt.Sprintf("%s <%s> %d", name, email, when)
committerStr(commit) ==
    commit.Committer.Name \o <<SP, LT>> \o commit.Committer.Email \o <<GT, SP>>
        \o FormatInt(commit.Committer.When)

\* hasher.Sum(nil) copied into a plumbing.Hash: an ideal digest of the stream
Sha1Sum(h) == <<DigestTag>> \o h

\* the stream the hasher has been given when Sum is called
HashStream(commit, pubkey) ==
    LET h0 == <<>>
        h1 == Write(h0, commit.TreeHash)
        h2 == WriteParents(h1, commit.ParentHashes)
        h3 == Write(h2, authorStr(commit, pubkey))
        h4 == Write(h3, committerStr(commit))
        h5 == Write(h4, commit.Message)
    IN  h5

\* a hash function that reads the configured key instead of its parameter
computeMGitHashAmbient(commit, pubkey) == Sha1Sum(HashStream(commit, env.pubkey))

computeMGitHash(commit, pubkey) == Sha1Sum(HashStream(commit, pubkey))

-----------------------------------------------------------------------------
(* Hashes as text (go-git plumbing: Hash.String, NewHash, ZeroHash)        *)

\* ASCII '0', 'a' and 'A' less ten, for hexadecimal digits
LOWER_A10 == 87
UPPER_A10 == 55

ZeroHash == HashOf(0)

HexDigit(n) == IF n < 10 THEN ZERO + n ELSE LOWER_A10 + n

\* Hash.String(): two lower-case hexadecimal digits for each byte
HashString(h) ==
    [i \in 1..2 * Len(h) |-> IF i % 2 = 1 THEN HexDigit(h[(i + 1) \div 2] \div 16)
                                        ELSE HexDigit(h[i \div 2] % 16)]

\* the value of a hexadecimal digit, -1 for any other character
UnhexDigit(c) ==
    IF c >= ZERO /\ c <= ZERO + 9 THEN c - ZERO
    ELSE IF c >= LOWER_A10 + 10 /\ c <= LOWER_A10 + 15 THEN c - LOWER_A10
    ELSE IF c >= UPPER_A10 + 10 /\ c <= UPPER_A10 + 15 THEN c - UPPER_A10
    ELSE -1

\* hex.DecodeString: the bytes decoded before the first bad or unpaired character
DecodeHex(s) ==
    LET pairs == Len(s) \div 2
        bad == {k \in 1..pairs : UnhexDigit(s[2 * k - 1]) < 0 \/ UnhexDigit(s[2 * k]) < 0}
        n == IF bad = {} THEN pairs ELSE (CHOOSE k \in bad : \A j \in bad : k <= j) - 1
    IN  [k \in 1..n |-> UnhexDigit(s[2 * k - 1]) * 16 + UnhexDigit(s[2 * k])]

\* plumbing.NewHash: the decoded bytes copied into a zeroed [20]byte
NewHash(s) ==
    LET b == DecodeHex(s)
    IN  [i \in 1..HashSize |-> IF i <= Len(b) THEN b[i] ELSE 0]

-----------------------------------------------------------------------------
(* The native repository and the .mgit directory                           *)

\* the branch a fresh repository's HEAD names
Master == "master"

\* git.PlainInit: no objects, no references, HEAD symbolic on the unborn master
EmptyGit ==
    [objects |-> <<>>, refs |-> <<>>, head |-> [symbolic |-> TRUE, name |-> Master, hash |-> ZeroHash]]

\* no .mgit directory yet
\* the .mgit/HEAD file: absent, "ref: refs/heads/<name>", or a bare hash
NoHead == [kind |-> "none", name |-> "", hash |-> <<>>]

\* no .mgit directory yet
EmptyMGit ==
    [objects |-> <<>>, refs |-> <<>>, head |-> NoHead,
     hasMappings |-> FALSE, wellFormed |-> TRUE, mappings |-> <<>>, nostr |-> <<>>]

\* nothing has run yet
NoRet ==
    [op |-> "none", err |-> "", hash |-> ZeroHash, pubkey |-> <<>>,
     native |-> ZeroHash, calls |-> <<>>, log |-> <<>>, exit |-> 0, checked |-> <<>>,
     failed |-> {}]

\* no revision has been resolved
NoRes == [impl |-> "none", rev |-> <<>>, hash |-> ZeroHash, err |-> "", by |-> ""]

\* the variables of the resolver when it is not under study
IdleResolve ==
    /\ rrepo = [commits |-> {}, refs |-> <<>>, head |-> [ok |-> FALSE, hash |-> ZeroHash]]
    /\ rconf = [envSet |-> FALSE, envVal |-> <<>>, local |-> <<>>, global |-> <<>>,
                mappings |-> <<>>]
    /\ res = NoRes

\* no call of a command-line function is under study
NoCall == [op |-> "none"]
NoOut == [op |-> "none"]
IdleCall ==
    /\ call = NoCall
    /\ out = NoOut

\* the variables of the working repository when it is not under study
IdleRepo ==
    /\ git = EmptyGit
    /\ mgit = EmptyMGit
    /\ ret = NoRet
    /\ created = <<>>

\* a function with one more (or one replaced) value
Put(f, k, v) == [x \in DOMAIN f \cup {k} |-> IF x = k THEN v ELSE f[x]]

\* repo.Head(): the hash HEAD resolves to; ok is FALSE on an unborn branch
GitHead(g) ==
    IF g.head.symbolic
    THEN IF g.head.name \in DOMAIN g.refs
         THEN [ok |-> TRUE, isBranch |-> TRUE, name |-> g.head.name, hash |-> g.refs[g.head.name]]
         ELSE [ok |-> FALSE, isBranch |-> TRUE, name |-> g.head.name, hash |-> ZeroHash]
    ELSE [ok |-> TRUE, isBranch |-> FALSE, name |-> "HEAD", hash |-> g.head.hash]

\* the hashes go-git gives new commit objects, in the order of creation: the
\* SHA-1 of an object that differs from all earlier ones is a hash not used yet
GitHashOfNth(n) == HashOf(16 + n)

-----------------------------------------------------------------------------
(* The inputs of the hash function, drawn from bounded sets                *)

\* longest parent list of a commit handed to the hash function
MaxParents == 2

\* names, e-mail addresses, keys and messages, as ASCII
TxtA == <<97>>
TxtB == <<98>>
TxtMail == <<101, 64, 120>>
TxtMsg1 == <<109>>
TxtMsg2 == <<109, 32, 50>>
KeyNone == <<>>
Key1 == <<110, 112, 117, 98, 49>>
Key2 == <<110, 112, 117, 98, 49, 50>>

Pubkeys == {KeyNone, Key1, Key2}
TreePool == {HashOf(1), HashOf(2)}
ParentPool == {HashOf(3), HashOf(4)}
ParentLists == UNION {[1..n -> ParentPool] : n \in 0..MaxParents}
AuthorPool == {[Name |-> TxtA, Email |-> TxtMail, When |-> w] : w \in {0, 12}}
CommitterPool == {[Name |-> TxtB, Email |-> TxtMail, When |-> w] : w \in {-3, 7}}
MessagePool == {TxtMsg1, TxtMsg2}

\* object.Commit as computeMGitHash reads it
HashCommits ==
    {[TreeHash |-> t, ParentHashes |-> ps, Author |-> a, Committer |-> c, Message |-> m] :
        t \in TreePool, ps \in ParentLists, a \in AuthorPool,
        c \in AuthorPool \cup CommitterPool, m \in MessagePool}

\* the process state a call runs in: configured user.pubkey and the wall clock
Envs == [pubkey : {KeyNone, Key1}, now : {0, 1}]

\* inputs that differ from (commit, pubkey) in at most one argument or field
Neighbours(commit, pubkey) ==
    {<<commit, k>> : k \in Pubkeys}
    \cup {<<[commit EXCEPT !.ParentHashes = ps], pubkey>> : ps \in ParentLists}
    \cup {<<[commit EXCEPT !.Message = m], pubkey>> : m \in MessagePool}
    \cup {<<[commit EXCEPT !.Committer = c], pubkey>> : c \in AuthorPool \cup CommitterPool}
    \cup {<<[commit EXCEPT !.TreeHash = t], pubkey>> : t \in TreePool}

\* one call of computeMGitHash: its arguments, the process state it ran in,
\* the stream it handed to the hasher and the hash it returned
HashCall(commit, pubkey) ==
    [commit |-> commit, pubkey |-> pubkey, env |-> env,
     fed |-> HashStream(commit, pubkey), sum |-> computeMGitHash(commit, pubkey)]

InitHash ==
    /\ hcall = <<>>
    /\ env \in Envs
    /\ IdleRepo
    /\ IdleResolve
    /\ IdleCall

\* a first call, on any input
HashFirst ==
    /\ hcall = <<>>
    /\ \E commit \in HashCommits, pubkey \in Pubkeys :
          hcall' = <<HashCall(commit, pubkey)>>
    /\ UNCHANGED <<env, varsRepo, varsResolve, varsCall>>

\* a second call, on the same input or on one that differs in one place
HashSecond ==
    /\ Len(hcall) = 1
    /\ \E n \in Neighbours(hcall[1].commit, hcall[1].pubkey) :
          hcall' = Append(hcall, HashCall(n[1], n[2]))
    /\ UNCHANGED <<env, varsRepo, varsResolve, varsCall>>

\* the process ends and another starts: configuration and clock change
Restart ==
    /\ Len(hcall) = 1
    /\ \E e \in Envs : e # env /\ env' = e
    /\ UNCHANGED <<hcall, varsRepo, varsResolve, varsCall>>

NextHash == HashFirst \/ HashSecond \/ Restart

SpecHash == InitHash /\ [][NextHash]_vars

-----------------------------------------------------------------------------
(* MGitCommit (src/mcommit.go:42-87)                                       *)

\* most commits the native repository comes to hold
MaxCommits == 2

\* Signature values a caller passes: the configured user, with or without a key
AuthorSigs == {[Name |-> TxtA, Email |-> TxtMail, Pubkey |-> k, When |-> 12] : k \in {KeyNone, Key1}}
CommitterSig == [Name |-> TxtB, Email |-> TxtMail, Pubkey |-> KeyNone, When |-> 7]

\* MCommitOptions: Author, and Committer when HasCommitter (nil otherwise)
CommitOpts == [Author : AuthorSigs, HasCommitter : BOOLEAN, Committer : {CommitterSig}]

\* trees the staged index may hash to
WorkTrees == {HashOf(1)}

\* what the environment lets fail in one call
CommitFaults == {"none", "worktree", "commit", "read"}

\* convertToGitSignature: name, e-mail and time; the key is dropped
convertToGitSignature(sig) == [Name |-> sig.Name, Email |-> sig.Email, When |-> sig.When]

\* Worktree.Commit of go-git: a commit object of the staged tree on top of what
\* HEAD resolves to, and HEAD's branch (or a detached HEAD) moved to it
WorktreeCommit(g, tree, message, author, committer) ==
    LET h == GitHead(g)
        hash == GitHashOfNth(Cardinality(DOMAIN g.objects) + 1)
        commit == [TreeHash |-> tree,
                   ParentHashes |-> IF h.ok THEN <<h.hash>> ELSE <<>>,
                   Author |-> author, Committer |-> committer, Message |-> message]
    IN  [hash |-> hash,
         git |-> [g EXCEPT !.objects = Put(@, hash, commit),
                           !.refs = IF g.head.symbolic THEN Put(@, g.head.name, hash) ELSE @,
                           !.head = IF g.head.symbolic THEN @ ELSE [@ EXCEPT !.hash = hash]]]

\* a commit operation that never takes the no-key branch
NoPubkeyNever(opts) == FALSE

\* the test of mcommit.go:70
NoPubkey(opts) == opts.Author.Pubkey = <<>>

\* MGitCommit: the repository after the call, the hash and error returned, the
\* native commit made and the calls of computeMGitHash
MGitCommit(g, message, opts, tree, fault) ==
    LET author == convertToGitSignature(opts.Author)
        committer == IF opts.HasCommitter THEN convertToGitSignature(opts.Committer) ELSE author
        c == WorktreeCommit(g, tree, message, author, committer)
        commit == c.git.objects[c.hash]
        mHash == computeMGitHash(commit, opts.Author.Pubkey)
    IN  IF fault = "worktree"
        THEN [git |-> g, hash |-> ZeroHash, err |-> "error getting worktree",
              native |-> ZeroHash, calls |-> <<>>]
        ELSE IF fault = "commit"
        THEN [git |-> g, hash |-> ZeroHash, err |-> "error committing",
              native |-> ZeroHash, calls |-> <<>>]
        ELSE IF NoPubkey(opts)
        THEN [git |-> c.git, hash |-> c.hash, err |-> "", native |-> c.hash, calls |-> <<>>]
        ELSE IF fault = "read"
        THEN [git |-> c.git, hash |-> ZeroHash, err |-> "error retrieving commit",
              native |-> c.hash, calls |-> <<>>]
        ELSE [git |-> c.git, hash |-> mHash, err |-> "", native |-> c.hash,
              calls |-> <<[parents |-> commit.ParentHashes, pubkey |-> opts.Author.Pubkey,
                           sum |-> mHash]>>]

\* StoreMGitCommitMapping: a placeholder that stores nothing and reports success
StoreMGitCommitMapping(m, gitHash, mgitHash) == [mgit |-> m, err |-> ""]

\* GetMGitHash: a placeholder that finds no mapping
GetMGitHash(m, gitHash) == [hash |-> ZeroHash, err |-> "mapping not found"]

\* one call of MGitCommit in the working repository
DoMGitCommit ==
    /\ mgit = EmptyMGit
    /\ Cardinality(DOMAIN git.objects) < MaxCommits
    /\ \E message \in {TxtMsg1}, opts \in CommitOpts, tree \in WorkTrees, fault \in CommitFaults :
          LET r == MGitCommit(git, message, opts, tree, fault)
          IN  /\ git' = r.git
              /\ ret' = [NoRet EXCEPT !.op = "MGitCommit", !.err = r.err, !.hash = r.hash,
                              !.pubkey = opts.Author.Pubkey, !.native = r.native,
                              !.calls = r.calls]
              /\ created' = IF r.calls = <<>> THEN created
                            ELSE Put(created, r.native, [parents |-> r.calls[1].parents, mhash |-> r.hash])
    /\ UNCHANGED <<mgit, varsHash, varsResolve, varsCall>>

-----------------------------------------------------------------------------
(* fetchMGitMetadata (src/unnamed/part_000:350-413)                        *)

\* longest mapping list the server answers with
MaxMappings == 2

\* identity hashes a server may claim that no commit operation produced:
\* a full-length one and one shorter than the 7 characters the code prints
BogusMGitHash == HashString(HashOf(153))
ShortMGitHash == <<97, 98, 99>>

\* a native hash no commit of the repository has
MissingGitHash == HashOf(238)

\* the mapping triples {gitHash, mgitHash, pubkey} a server may serve for the
\* repository: those commit operations produced, and others
ServerEntries ==
    {[GitHash |-> HashString(g), MGitHash |-> HashString(created[g].mhash), Pubkey |-> Key1] :
        g \in DOMAIN created}
    \cup {[GitHash |-> HashString(GitHashOfNth(1)), MGitHash |-> BogusMGitHash, Pubkey |-> Key1],
          [GitHash |-> HashString(GitHashOfNth(1)), MGitHash |-> ShortMGitHash, Pubkey |-> Key1],
          [GitHash |-> HashString(MissingGitHash), MGitHash |-> BogusMGitHash, Pubkey |-> Key2]}

ServerLists == UNION {[1..n -> ServerEntries] : n \in 0..MaxMappings}

\* fetchMGitMetadata: on a good answer the list is written to hash_mappings.json
\* and to nostr_mappings.json; wellFormed is FALSE when the answer is a JSON
\* array whose elements are not mapping objects
fetchMGitMetadata(m, fault, wellFormed, list) ==
    IF fault
    THEN [mgit |-> m, err |-> "error response from server"]
    ELSE [mgit |-> [m EXCEPT !.hasMappings = TRUE, !.wellFormed = wellFormed,
                             !.mappings = list, !.nostr = list],
          err |-> ""]

DoFetchMGitMetadata ==
    /\ mgit = EmptyMGit
    /\ ret.op \in {"none", "MGitCommit"}
    /\ \E fault \in BOOLEAN, wellFormed \in BOOLEAN, list \in ServerLists :
          /\ (fault \/ ~wellFormed) => list = <<>>
          /\ fault => wellFormed
          /\ LET r == fetchMGitMetadata(mgit, fault, wellFormed, list)
             IN  /\ mgit' = r.mgit
                 /\ ret' = [NoRet EXCEPT !.op = "fetchMGitMetadata", !.err = r.err]
    /\ UNCHANGED <<git, created, varsHash, varsResolve, varsCall>>

-----------------------------------------------------------------------------
(* The Commit Store (MGitStorage): Initialize, StoreCommit, GetCommit,     *)
(* UpdateRef, GetHeadCommit                                                *)

\* put: the record is persisted under its identity hash; a different record
\* already under that key is a corruption error and nothing is written
StoreCommit(objects, rec, fault) ==
    IF fault THEN [objects |-> objects, err |-> "write failed"]
    ELSE IF rec.MGitHash \in DOMAIN objects /\ objects[rec.MGitHash] # rec
    THEN [objects |-> objects, err |-> "corruption"]
    ELSE [objects |-> Put(objects, rec.MGitHash, rec), err |-> ""]

\* get: the record under the hash, or not found
GetCommit(objects, hash) ==
    IF hash \in DOMAIN objects
    THEN [ok |-> TRUE, commit |-> objects[hash]]
    ELSE [ok |-> FALSE, commit |-> <<>>]

\* updateRef: the branch reference is written
UpdateRef(refs, name, hash, fault) ==
    IF fault THEN [refs |-> refs, err |-> "write failed"]
    ELSE [refs |-> Put(refs, name, hash), err |-> ""]

\* getHeadCommit: HEAD, through a symbolic reference if it is one
GetHeadCommit(m) ==
    IF m.head.kind = "hash" THEN GetCommit(m.objects, m.head.hash)
    ELSE IF m.head.kind = "ref" /\ m.head.name \in DOMAIN m.refs
    THEN GetCommit(m.objects, m.refs[m.head.name])
    ELSE [ok |-> FALSE, commit |-> <<>>]

-----------------------------------------------------------------------------
(* reconstructMGitObjects (src/unnamed/part_000:447-632)                   *)

\* the characters of a hash the progress messages print
ShortLen == 7

\* what the environment lets fail in one run: nothing, storage.Initialize,
\* the StoreCommit of the i-th mapping, the UpdateRef of a branch, or the
\* write of the HEAD file
ReconFaults(m, g) ==
    {[kind |-> "none", i |-> 0, name |-> ""], [kind |-> "init", i |-> 0, name |-> ""],
     [kind |-> "head", i |-> 0, name |-> ""]}
    \cup {[kind |-> "store", i |-> i, name |-> ""] : i \in 1..Len(m.mappings)}
    \cup {[kind |-> "ref", i |-> 0, name |-> b] : b \in DOMAIN g.refs}

\* a lookup that falls back to the first mapping when none matches
FirstMappingOrFirst(mappings, gitHash) ==
    LET hits == {i \in 1..Len(mappings) : mappings[i].GitHash = gitHash}
    IN  IF hits = {} THEN (IF Len(mappings) > 0 THEN 1 ELSE 0)
        ELSE CHOOSE i \in hits : \A j \in hits : i <= j

\* index of the first mapping whose GitHash is the string, 0 if none
FirstMapping(mappings, gitHash) ==
    LET hits == {i \in 1..Len(mappings) : mappings[i].GitHash = gitHash}
    IN  IF hits = {} THEN 0 ELSE CHOOSE i \in hits : \A j \in hits : i <= j

RECURSIVE ParentMGitHashes(_, _)
\* the loop of part_000:531-539: for each native parent in order, the MGitHash
\* of the first mapping of that parent; a parent with no mapping adds nothing
ParentMGitHashes(mappings, parents) ==
    IF parents = <<>> THEN <<>>
    ELSE LET i == FirstMapping(mappings, HashString(Head(parents)))
         IN  (IF i = 0 THEN <<>> ELSE <<mappings[i].MGitHash>>)
                 \o ParentMGitHashes(mappings, Tail(parents))

\* a reconstruction that copies the native committer
CommitterOfCommit(commit, mapping) ==
    [Name |-> commit.Committer.Name, Email |-> commit.Committer.Email,
     Pubkey |-> mapping.Pubkey, When |-> commit.Committer.When]

\* the Committer of the record, as part_000:521-526 builds it
RecordCommitter(commit, mapping) ==
    [Name |-> commit.Author.Name, Email |-> commit.Author.Email,
     Pubkey |-> mapping.Pubkey, When |-> commit.Author.When]

\* the MCommitStruct built for a mapping and its native commit
MCommitStruct(mappings, mapping, commit) ==
    [Type |-> "commit",
     MGitHash |-> mapping.MGitHash,
     GitHash |-> mapping.GitHash,
     Message |-> commit.Message,
     Author |-> [Name |-> commit.Author.Name, Email |-> commit.Author.Email,
                 Pubkey |-> mapping.Pubkey, When |-> commit.Author.When],
     Committer |-> RecordCommitter(commit, mapping),
     ParentHashes |-> ParentMGitHashes(mappings, commit.ParentHashes),
     TreeHash |-> HashString(commit.TreeHash)]

\* an entry of the run's log: a warning printed or a write done, in order
Event(ev, i, name, val) == [ev |-> ev, i |-> i, name |-> name, val |-> val]

RECURSIVE ReconCommitsStopping(_, _, _, _, _)
\* a loop that ends at the first mapping whose native commit is missing
ReconCommitsStopping(g, mappings, i, fault, st) ==
    IF i > Len(mappings) THEN st
    ELSE
        LET mapping == mappings[i]
            gitHash == NewHash(mapping.GitHash)
        IN  IF gitHash \notin DOMAIN g.objects
            THEN [st EXCEPT !.log = Append(@, Event("warn-commit", i, "", mapping.GitHash))]
            ELSE
                LET rec == MCommitStruct(mappings, mapping, g.objects[gitHash])
                    put == StoreCommit(st.objects, rec, fault.kind = "store" /\ fault.i = i)
                IN  IF put.err # ""
                    THEN ReconCommitsStopping(g, mappings, i + 1, fault,
                            [st EXCEPT !.log = Append(@, Event("warn-store", i, put.err, mapping.MGitHash))])
                    ELSE IF Len(mapping.MGitHash) < ShortLen \/ Len(mapping.GitHash) < ShortLen
                    THEN [st EXCEPT !.objects = put.objects,
                                    !.log = Append(@, Event("store", i, "", rec)),
                                    !.panic = TRUE]
                    ELSE ReconCommitsStopping(g, mappings, i + 1, fault,
                            [st EXCEPT !.objects = put.objects,
                                       !.log = Append(@, Event("store", i, "", rec))])

RECURSIVE ReconCommits(_, _, _, _, _)
\* the loop over the mappings from the i-th on; st is the objects so far, the
\* log, and whether the run has panicked (a slice of a too short string)
ReconCommits(g, mappings, i, fault, st) ==
    IF i > Len(mappings) THEN st
    ELSE
        LET mapping == mappings[i]
            gitHash == NewHash(mapping.GitHash)
        IN  IF gitHash \notin DOMAIN g.objects
            THEN ReconCommits(g, mappings, i + 1, fault,
                    [st EXCEPT !.log = Append(@, Event("warn-commit", i, "", mapping.GitHash))])
            ELSE
                LET rec == MCommitStruct(mappings, mapping, g.objects[gitHash])
                    put == StoreCommit(st.objects, rec, fault.kind = "store" /\ fault.i = i)
                IN  IF put.err # ""
                    THEN ReconCommits(g, mappings, i + 1, fault,
                            [st EXCEPT !.log = Append(@, Event("warn-store", i, put.err, mapping.MGitHash))])
                    ELSE IF Len(mapping.MGitHash) < ShortLen \/ Len(mapping.GitHash) < ShortLen
                    THEN [st EXCEPT !.objects = put.objects,
                                    !.log = Append(@, Event("store", i, "", rec)),
                                    !.panic = TRUE]
                    ELSE ReconCommits(g, mappings, i + 1, fault,
                            [st EXCEPT !.objects = put.objects,
                                       !.log = Append(@, Event("store", i, "", rec))])

RECURSIVE ReconRefs(_, _, _, _, _)
\* the walk over the native branch references, in the order the iterator
\* yields them; st is the identity refs so far, the log and the panic flag
ReconRefs(g, mappings, order, fault, st) ==
    IF order = <<>> THEN st
    ELSE
        LET branchName == Head(order)
            gitHash == HashString(g.refs[branchName])
            i == FirstMapping(mappings, gitHash)
        IN  IF i = 0
            THEN ReconRefs(g, mappings, Tail(order), fault,
                    [st EXCEPT !.log = Append(@, Event("warn-branch", 0, branchName, gitHash))])
            ELSE
                LET mgitHash == mappings[i].MGitHash
                    upd == UpdateRef(st.refs, branchName, mgitHash,
                                     fault.kind = "ref" /\ fault.name = branchName)
                    warned == IF mgitHash = <<>>
                              THEN <<Event("warn-branch", 0, branchName, gitHash)>> ELSE <<>>
                IN  IF upd.err # ""
                    THEN ReconRefs(g, mappings, Tail(order), fault,
                            [st EXCEPT !.log = Append(@, Event("warn-ref", i, branchName, mgitHash))
                                                 \o warned])
                    ELSE IF Len(mgitHash) < ShortLen
                    THEN [st EXCEPT !.refs = upd.refs,
                                    !.log = Append(@, Event("ref", i, branchName, mgitHash)),
                                    !.panic = TRUE]
                    ELSE ReconRefs(g, mappings, Tail(order), fault,
                            [st EXCEPT !.refs = upd.refs,
                                       !.log = Append(@, Event("ref", i, branchName, mgitHash))])

\* the HEAD step of part_000:588-629, after the objects and the references
ReconHead(g, m, mappings, fault, log) ==
    LET head == GitHead(g)
        i == FirstMapping(mappings, HashString(head.hash))
        mgitHash == IF i = 0 THEN <<>> ELSE mappings[i].MGitHash
    IN  IF ~head.ok
        THEN [mgit |-> m, log |-> log, err |-> "error getting Git HEAD"]
        ELSE IF head.isBranch
        THEN IF fault.kind = "head"
             THEN [mgit |-> m, log |-> log, err |-> "error writing HEAD file"]
             ELSE [mgit |-> [m EXCEPT !.head = [kind |-> "ref", name |-> head.name, hash |-> <<>>]],
                   log |-> Append(log, Event("head-ref", 0, head.name, <<>>)), err |-> ""]
        ELSE IF mgitHash = <<>>
        THEN [mgit |-> m, log |-> log, err |-> "could not find MGit hash for detached HEAD"]
        ELSE IF fault.kind = "head"
        THEN [mgit |-> m, log |-> log, err |-> "error writing HEAD file"]
        ELSE [mgit |-> [m EXCEPT !.head = [kind |-> "hash", name |-> "", hash |-> mgitHash]],
              log |-> Append(log, Event("head-hash", i, "", mgitHash)),
              err |-> IF Len(mgitHash) < ShortLen THEN "panic" ELSE ""]

\* a run that empties the identity store before it fills it
reconstructMGitObjectsFresh(g, m, order, fault) ==
    IF ~m.hasMappings
    THEN [mgit |-> m, log |-> <<>>, err |-> "no MGit mappings found in the repository"]
    ELSE IF ~m.wellFormed
    THEN [mgit |-> m, log |-> <<>>, err |-> "error parsing mappings file"]
    ELSE IF fault.kind = "init"
    THEN [mgit |-> m, log |-> <<>>, err |-> "error initializing MGit storage"]
    ELSE
        LET m0 == [m EXCEPT !.objects = <<>>, !.refs = <<>>, !.head = NoHead]
            c == ReconCommits(g, m.mappings, 1, fault,
                              [objects |-> m0.objects, log |-> <<>>, panic |-> FALSE])
            m1 == [m0 EXCEPT !.objects = c.objects]
            r == ReconRefs(g, m.mappings, order, fault,
                           [refs |-> m0.refs, log |-> c.log, panic |-> FALSE])
            m2 == [m1 EXCEPT !.refs = r.refs]
        IN  IF c.panic THEN [mgit |-> m1, log |-> c.log, err |-> "panic"]
            ELSE IF r.panic THEN [mgit |-> m2, log |-> r.log, err |-> "panic"]
            ELSE ReconHead(g, m2, m.mappings, fault, r.log)

\* reconstructMGitObjects: the .mgit directory after the run, the log of the
\* run and the error returned ("panic" when the run crashed)
reconstructMGitObjects(g, m, order, fault) ==
    IF ~m.hasMappings
    THEN [mgit |-> m, log |-> <<>>, err |-> "no MGit mappings found in the repository"]
    ELSE IF ~m.wellFormed
    THEN [mgit |-> m, log |-> <<>>, err |-> "error parsing mappings file"]
    ELSE IF fault.kind = "init"
    THEN [mgit |-> m, log |-> <<>>, err |-> "error initializing MGit storage"]
    ELSE
        LET c == ReconCommits(g, m.mappings, 1, fault,
                              [objects |-> m.objects, log |-> <<>>, panic |-> FALSE])
            m1 == [m EXCEPT !.objects = c.objects]
            r == ReconRefs(g, m.mappings, order, fault,
                           [refs |-> m.refs, log |-> c.log, panic |-> FALSE])
            m2 == [m1 EXCEPT !.refs = r.refs]
        IN  IF c.panic THEN [mgit |-> m1, log |-> c.log, err |-> "panic"]
            ELSE IF r.panic THEN [mgit |-> m2, log |-> r.log, err |-> "panic"]
            ELSE ReconHead(g, m2, m.mappings, fault, r.log)

\* the orders in which an iterator may yield the members of a set
Orders(S) == {o \in [1..Cardinality(S) -> S] : \A x \in S : \E k \in DOMAIN o : o[k] = x}

DoReconstructMGitObjects ==
    /\ ret.op = "fetchMGitMetadata"
    /\ \E order \in Orders(DOMAIN git.refs), fault \in ReconFaults(mgit, git) :
          LET r == reconstructMGitObjects(git, mgit, order, fault)
          IN  /\ mgit' = r.mgit
              /\ ret' = [NoRet EXCEPT !.op = "reconstructMGitObjects", !.err = r.err,
                                      !.log = r.log]
    /\ UNCHANGED <<git, created, varsHash, varsResolve, varsCall>>

-----------------------------------------------------------------------------
(* HandleMGitVerify (src/README.md:222-294)                                *)

\* the three-argument computeMGitHash the verification calls: the hash of
\* section 4.1 with the parent hashes given by the caller, as raw bytes
computeMGitHashOver(gitCommit, parentHashes, pubkey) ==
    Sha1Sum(gitCommit.TreeHash
                \o Concat([i \in 1..Len(parentHashes) |-> DecodeHex(parentHashes[i])])
                \o authorStr(gitCommit, pubkey)
                \o committerStr(gitCommit)
                \o gitCommit.Message)

RECURSIVE VerifyWalk(_, _, _)
\* the breadth-first walk of README.md:238-260; st is the commits loaded, the
\* hashes visited and the hashes that could not be loaded
VerifyWalk(objects, queue, st) ==
    IF queue = <<>> THEN st
    ELSE
        LET current == Head(queue)
            got == GetCommit(objects, current)
            seen == st.visited \cup {current}
            Unvisited(p) == p \notin seen
        IN  IF current \in st.visited
            THEN VerifyWalk(objects, Tail(queue), st)
            ELSE IF ~got.ok
            THEN VerifyWalk(objects, Tail(queue), [st EXCEPT !.failed = @ \cup {current}])
            ELSE VerifyWalk(objects,
                            Tail(queue) \o SelectSeq(got.commit.ParentHashes, Unvisited),
                            [st EXCEPT !.commits = Put(@, current, got.commit),
                                       !.visited = seen])

\* a check that passes every commit whose native commit is found
VerifyCommitFoundOnly(g, hash, commit) ==
    LET gitHash == NewHash(commit.GitHash)
        found == gitHash \in DOMAIN g.objects
        fed == commit.ParentHashes
        expected == IF found
                    THEN HashString(computeMGitHashOver(g.objects[gitHash], fed, commit.Author.Pubkey))
                    ELSE <<>>
    IN  [found |-> found, fed |-> fed, expected |-> expected, ok |-> found]

\* the check of one loaded commit, README.md:266-286: the parent list handed to
\* the hash function, the hash expected and whether the commit passes
VerifyCommit(g, hash, commit) ==
    LET gitHash == NewHash(commit.GitHash)
        found == gitHash \in DOMAIN g.objects
        fed == commit.ParentHashes
        expected == IF found
                    THEN HashString(computeMGitHashOver(g.objects[gitHash], fed, commit.Author.Pubkey))
                    ELSE <<>>
    IN  [found |-> found, fed |-> fed, expected |-> expected,
         ok |-> found /\ expected = hash]

\* HandleMGitVerify: the exit status and the result of each commit checked
HandleMGitVerify(g, m) ==
    LET head == GetHeadCommit(m)
        w == VerifyWalk(m.objects, <<head.commit.MGitHash>>,
                        [commits |-> <<>>, visited |-> {}, failed |-> {}])
        checked == [h \in DOMAIN w.commits |-> VerifyCommit(g, h, w.commits[h])]
        valid == \A h \in DOMAIN checked : checked[h].ok
    IN  IF ~head.ok
        THEN [exit |-> 1, err |-> "Error getting HEAD commit", checked |-> <<>>, failed |-> {}]
        ELSE [exit |-> IF valid THEN 0 ELSE 1, err |-> "", checked |-> checked,
              failed |-> w.failed]

DoHandleMGitVerify ==
    /\ ret.op = "reconstructMGitObjects"
    /\ LET r == HandleMGitVerify(git, mgit)
       IN  ret' = [NoRet EXCEPT !.op = "HandleMGitVerify", !.err = r.err, !.exit = r.exit,
                                !.checked = r.checked, !.failed = r.failed]
    /\ UNCHANGED <<git, mgit, created, varsHash, varsResolve, varsCall>>

InitRepo ==
    /\ hcall = <<>>
    /\ env = [pubkey |-> KeyNone, now |-> 0]
    /\ IdleRepo
    /\ IdleResolve
    /\ IdleCall

Next ==
    \/ DoMGitCommit
    \/ DoFetchMGitMetadata
    \/ DoReconstructMGitObjects
    \/ DoHandleMGitVerify

Spec == InitRepo /\ [][Next]_vars

-----------------------------------------------------------------------------
(* The clone sequence (src/unnamed/part_000:204-246): after git clone, the  *)
(* mappings are fetched and the identity objects reconstructed              *)

\* longest mapping list a server answers a clone with
MaxServed == 3

Dev == "dev"

\* the k-th commit of a cloned history; every second one was committed by
\* somebody other than its author
ClonedCommit(k, parents) ==
    LET author == [Name |-> TxtA, Email |-> TxtMail, When |-> 12]
    IN  [TreeHash |-> HashOf(k), ParentHashes |-> parents, Author |-> author,
         Committer |-> IF k % 2 = 0 THEN [Name |-> TxtB, Email |-> TxtMail, When |-> 7]
                       ELSE author,
         Message |-> TxtMsg1]

\* the position of a commit in its history
NthOf(h) == h[1] - 16

\* a linear history of n commits
Chain(n) ==
    [h \in {GitHashOfNth(k) : k \in 1..n} |->
        ClonedCommit(NthOf(h), IF NthOf(h) = 1 THEN <<>> ELSE <<GitHashOfNth(NthOf(h) - 1)>>)]

\* two unrelated roots and their merge, the parents in the order given
Merge(parents) ==
    [h \in {GitHashOfNth(k) : k \in 1..3} |->
        ClonedCommit(NthOf(h), IF NthOf(h) = 3 THEN parents ELSE <<>>)]

\* the newest commit of a history
Tip(objects) == GitHashOfNth(Cardinality(DOMAIN objects))

\* git clone's result for a history: HEAD on master at the tip
OnMaster(o) ==
    [objects |-> o, refs |-> (Master :> Tip(o)),
     head |-> [symbolic |-> TRUE, name |-> Master, hash |-> ZeroHash]]

\* the clone of an origin whose HEAD is detached: HEAD at the tip, no branch
Detached(o) ==
    [objects |-> o, refs |-> <<>>, head |-> [symbolic |-> FALSE, name |-> "", hash |-> Tip(o)]]

\* a repository with a second branch, at the first commit
TwoBranches(o) ==
    [objects |-> o, refs |-> (Master :> Tip(o)) @@ (Dev :> GitHashOfNth(1)),
     head |-> [symbolic |-> TRUE, name |-> Master, hash |-> ZeroHash]]

\* the repositories reconstruction is run on: an empty clone, linear
\* histories of one to three commits, a merge of two roots
ClonedRepos ==
    {EmptyGit, OnMaster(Chain(1)), OnMaster(Chain(2)), Detached(Chain(2)),
     TwoBranches(Chain(2)), OnMaster(Chain(3)),
     OnMaster(Merge(<<GitHashOfNth(1), GitHashOfNth(2)>>))}

\* the identity hash MGitCommit gave each commit at the origin, under Key1
IdentityOf(objects) ==
    [g \in DOMAIN objects |->
        [parents |-> objects[g].ParentHashes, mhash |-> computeMGitHash(objects[g], Key1)]]

\* gitClone returned: the native repository is in place, .mgit is not
InitClone ==
    /\ hcall = <<>>
    /\ env = [pubkey |-> KeyNone, now |-> 0]
    /\ git \in ClonedRepos
    /\ created = IdentityOf(git.objects)
    /\ mgit = EmptyMGit
    /\ ret = NoRet
    /\ IdleResolve
    /\ IdleCall

\* the mapping of each commit as the origin recorded it
TrueEntries ==
    {[GitHash |-> HashString(g), MGitHash |-> HashString(created[g].mhash), Pubkey |-> Key1] :
        g \in DOMAIN created}

\* other triples a server may serve: a second identity hash for the first
\* commit, the first commit under the second commit's identity hash, an
\* identity hash shorter than a hash, and a commit the clone does not hold
OtherEntries ==
    {[GitHash |-> HashString(GitHashOfNth(1)), MGitHash |-> BogusMGitHash, Pubkey |-> Key1],
     [GitHash |-> HashString(GitHashOfNth(1)), MGitHash |-> ShortMGitHash, Pubkey |-> Key1],
     [GitHash |-> HashString(MissingGitHash), MGitHash |-> BogusMGitHash, Pubkey |-> Key2]}
    \cup {[GitHash |-> HashString(GitHashOfNth(1)), MGitHash |-> HashString(created[g].mhash),
           Pubkey |-> Key1] : g \in DOMAIN created \cap {GitHashOfNth(2)}}

\* the lists served: no triple twice, at most one of the other triples
ClonedLists ==
    {s \in UNION {[1..n -> TrueEntries \cup OtherEntries] : n \in 0..MaxServed} :
        /\ \A i, j \in DOMAIN s : s[i] = s[j] => i = j
        /\ Cardinality({i \in DOMAIN s : s[i] \in OtherEntries}) <= 1}

\* fetchMGitMetadata as cloneRepository calls it
DoFetchMGitMetadataOfClone ==
    /\ ret.op = "none"
    /\ \E fault \in BOOLEAN, wellFormed \in BOOLEAN, list \in ClonedLists :
          /\ (fault \/ ~wellFormed) => list = <<>>
          /\ fault => wellFormed
          /\ LET r == fetchMGitMetadata(mgit, fault, wellFormed, list)
             IN  /\ mgit' = r.mgit
                 /\ ret' = [NoRet EXCEPT !.op = "fetchMGitMetadata", !.err = r.err]
    /\ UNCHANGED <<git, created, varsHash, varsResolve, varsCall>>

\* reconstructMGitObjects run once more on the store the first run left; the
\* output of this run is not kept
DoReconstructMGitObjectsAgain ==
    /\ ret.op = "reconstructMGitObjects"
    /\ \E order \in Orders(DOMAIN git.refs), fault \in ReconFaults(mgit, git) :
          LET r == reconstructMGitObjects(git, mgit, order, fault)
          IN  /\ mgit' = r.mgit
              /\ ret' = [NoRet EXCEPT !.op = "reconstructMGitObjectsAgain", !.err = r.err]
    /\ UNCHANGED <<git, created, varsHash, varsResolve, varsCall>>

NextClone ==
    \/ DoFetchMGitMetadataOfClone
    \/ DoReconstructMGitObjects
    \/ DoReconstructMGitObjectsAgain
    \/ DoHandleMGitVerify

SpecClone == InitClone /\ [][NextClone]_vars

-----------------------------------------------------------------------------
(* HandleMGitVerify in a repository whose identity store a clone built     *)

\* the function on a part of its domain
Restrict(f, S) == [x \in S |-> f[x]]

\* the triple of the second commit of a history under the identity hash the
\* verification computes for it: over the identity hash of its parent
VerifiedEntries(objects) ==
    {[GitHash |-> HashString(g),
      MGitHash |-> HashString(computeMGitHashOver(
                       objects[g],
                       <<HashString(computeMGitHash(objects[GitHashOfNth(1)], Key1))>>,
                       Key1)),
      Pubkey |-> Key1] :
        g \in {h \in DOMAIN objects \cap {GitHashOfNth(2)} :
                  objects[h].ParentHashes = <<GitHashOfNth(1)>>}}

\* the lists a server keeping such hashes serves: the first commit, then the
\* second
VerifiedLists(objects) ==
    {<<t, v>> : t \in {e \in TrueEntries : e.GitHash = HashString(GitHashOfNth(1))},
                v \in VerifiedEntries(objects)}

\* the faults of the reconstruction that built the store: none, and for the
\* lists above the refused write of the first record
StoreFaults(list, objects) ==
    {[kind |-> "none", i |-> 0, name |-> ""]}
    \cup (IF list \in VerifiedLists(objects)
          THEN {[kind |-> "store", i |-> 1, name |-> ""]}
          ELSE {})

\* the directory the verification is run in: the identity store as the
\* reconstruction of a clone left it, and the native repository as it is by
\* then, where one commit object may have been lost since
InitVerify ==
    /\ hcall = <<>>
    /\ env = [pubkey |-> KeyNone, now |-> 0]
    /\ IdleResolve
    /\ IdleCall
    /\ \E base \in ClonedRepos :
          /\ created = IdentityOf(base.objects)
          /\ \E list \in ClonedLists \cup VerifiedLists(base.objects), order \in Orders(DOMAIN base.refs),
                lost \in SUBSET DOMAIN base.objects :
                /\ Cardinality(lost) <= 1
                /\ \E fault \in StoreFaults(list, base.objects) :
                      LET fetched == fetchMGitMetadata(EmptyMGit, FALSE, TRUE, list).mgit
                          r == reconstructMGitObjects(base, fetched, order, fault)
                      IN  /\ mgit = r.mgit
                          /\ ret = [NoRet EXCEPT !.op = "reconstructMGitObjects",
                                                 !.err = r.err, !.log = r.log]
                /\ git = [base EXCEPT !.objects = Restrict(@, DOMAIN @ \ lost)]

NextVerify == DoHandleMGitVerify

SpecVerify == InitVerify /\ [][NextVerify]_vars

-----------------------------------------------------------------------------
(* resolveRevision: a revision string to a native commit hash               *)

TxtHEAD == <<72, 69, 65, 68>>
TxtRefsHeads == <<114, 101, 102, 115, 47, 104, 101, 97, 100, 115, 47>>
TxtRefsTags == <<114, 101, 102, 115, 47, 116, 97, 103, 115, 47>>
TxtMain == <<109, 97, 105, 110>>
TxtV1 == <<118, 49>>

\* the length of a hash written in hexadecimal
HexSize == 40
\* the shortest prefix the prefix search accepts
MinPrefix == 4

\* strings.HasPrefix
HasPrefix(s, p) == Len(p) <= Len(s) /\ SubSeq(s, 1, Len(p)) = p

\* plumbing.IsHash: forty characters that hex.DecodeString accepts
IsHash(s) == Len(s) = HexSize /\ \A i \in 1..Len(s) : UnhexDigit(s[i]) >= 0

\* a hash whose first bytes are given, the rest zero
HashFrom(p) == [i \in 1..HashSize |-> IF i <= Len(p) THEN p[i] ELSE 0]

\* the commits a repository under resolution may hold: "aaaa1111..",
\* "aaaa2222.." and "bbbb..bb"
HA1 == HashFrom(<<170, 170, 17, 17>>)
HA2 == HashFrom(<<170, 170, 34, 34>>)
HB == HashOf(187)
CommitPool == {HA1, HA2, HB}

\* identity hashes of the mappings: "cccc1111..", "cccc2222.." and one that
\* begins like the native hashes, "aaaa3333.."
MC1 == HashString(HashFrom(<<204, 204, 17, 17>>))
MC2 == HashString(HashFrom(<<204, 204, 34, 34>>))
MA3 == HashString(HashFrom(<<170, 170, 51, 51>>))

\* NostrCommitMapping entries of nostr_mappings.json
MappingPool ==
    { [GitHash |-> HashString(HA1), MGitHash |-> MC1, Pubkey |-> Key1],
      [GitHash |-> HashString(HB), MGitHash |-> MC2, Pubkey |-> Key2],
      [GitHash |-> HashString(HB), MGitHash |-> MA3, Pubkey |-> Key1] }

MappingLists ==
    UNION { [1..n -> MappingPool] : n \in 0..MaxMappings }

\* the references of a repository: a branch named by the forty hexadecimal
\* digits of HB that points at HA1, the branch main, the tag v1
RefHexBranch == TxtRefsHeads \o HashString(HB)
RefMain == TxtRefsHeads \o TxtMain
RefV1 == TxtRefsTags \o TxtV1

RefsOf(commits, hexBranch, main, tag) ==
    LET names == (IF hexBranch /\ HA1 \in commits THEN {RefHexBranch} ELSE {})
                 \cup (IF main /\ HA2 \in commits THEN {RefMain} ELSE {})
                 \cup (IF tag /\ HA1 \in commits THEN {RefV1} ELSE {})
    IN  [n \in names |-> IF n = RefMain THEN HA2 ELSE HA1]

\* HEAD names the branch main; it resolves once main exists
Repos ==
    { [commits |-> cs, refs |-> RefsOf(cs, hb, m, t),
       head |-> IF m /\ HA2 \in cs THEN [ok |-> TRUE, hash |-> HA2]
                ELSE [ok |-> FALSE, hash |-> ZeroHash]] :
      cs \in SUBSET CommitPool, hb \in BOOLEAN, m \in BOOLEAN, t \in BOOLEAN }

\* MGIT_USER_PUBKEY, and user.pubkey of the local and the global config file
Confs ==
    { [envSet |-> FALSE, envVal |-> <<>>, local |-> <<>>, global |-> <<>>],
      [envSet |-> TRUE, envVal |-> Key1, local |-> <<>>, global |-> <<>>],
      [envSet |-> TRUE, envVal |-> <<>>, local |-> Key1, global |-> <<>>],
      [envSet |-> FALSE, envVal |-> <<>>, local |-> Key2, global |-> Key1],
      [envSet |-> FALSE, envVal |-> <<>>, local |-> <<>>, global |-> Key1] }

\* the revisions asked for
Revs ==
    { TxtHEAD, TxtMain, RefMain, TxtV1,
      HashString(HA1), HashString(HA2), HashString(HB),
      SubSeq(HashString(HA1), 1, 4), SubSeq(HashString(HA1), 1, 8),
      SubSeq(HashString(HA1), 1, 3), SubSeq(HashString(HA2), 1, 39),
      SubSeq(HashString(HB), 1, 4),
      MC1, SubSeq(MC1, 1, 4), SubSeq(MC2, 1, 5), MA3, <<>> }

\* GetConfigValue for the key user.pubkey
GetConfigValue(conf, defaultValue) ==
    IF conf.envSet THEN conf.envVal
    ELSE IF conf.local # <<>> THEN conf.local
    ELSE IF conf.global # <<>> THEN conf.global
    ELSE defaultValue

GetNostrPubKey(conf) == GetConfigValue(conf, <<>>)

\* the mappings read from .mgit/mappings/nostr_mappings.json
getAllNostrMappings(conf) == conf.mappings

\* repo.Reference(name, true); HEAD resolves through the branch it names
Reference(repo, name) ==
    IF name = TxtHEAD THEN repo.head
    ELSE IF name \in DOMAIN repo.refs THEN [ok |-> TRUE, hash |-> repo.refs[name]]
    ELSE [ok |-> FALSE, hash |-> ZeroHash]

\* repo.Head()
RepoHead(repo) == repo.head

\* what a call of resolveRevision returns; by names the return statement
Resolved(hash, by) == [hash |-> hash, err |-> "", by |-> by]
Unresolved(err) == [hash |-> ZeroHash, err |-> err, by |-> "error"]

\* the commits whose hexadecimal hash begins with rev
PrefixMatches(repo, rev) == { c \in repo.commits : HasPrefix(HashString(c), rev) }

\* the prefix search treating several matches like none
matchCountLoose(matches) ==
    IF Cardinality(matches) = 1 THEN "one" ELSE "none"

\* the three outcomes of the prefix search
matchCount(matches) ==
    IF Cardinality(matches) = 1 THEN "one"
    ELSE IF Cardinality(matches) > 1 THEN "many"
    ELSE "none"

\* the mapping strategy entered whatever the key
HasPubkeyAlways(pubkey) == TRUE

\* the mapping strategy is entered only with a key configured
HasPubkey(pubkey) == pubkey # <<>>

\* the positions of the mappings whose identity hash is rev or begins with it
MappingHits(mappings, rev) ==
    { i \in 1..Len(mappings) :
        mappings[i].MGitHash = rev \/ HasPrefix(mappings[i].MGitHash, rev) }

\* the last of the matching positions
LastHit(hits) == CHOOSE i \in hits : \A j \in hits : i >= j

\* the loop returns at the first matching position
FirstHit(hits) == CHOOSE i \in hits : \A j \in hits : i <= j

\* the mapping loop and the final error
resolveByMapping(conf, rev) ==
    LET mappings == getAllNostrMappings(conf)
        hits == MappingHits(mappings, rev)
    IN  IF HasPubkey(GetNostrPubKey(conf)) /\ hits # {}
        THEN Resolved(NewHash(mappings[FirstHit(hits)].GitHash), "mapping")
        ELSE Unresolved("revision not found")

\* the prefix search, then the mappings
resolveByPrefix(repo, conf, rev) ==
    LET matches == PrefixMatches(repo, rev)
    IN  IF Len(rev) >= MinPrefix /\ Len(rev) < HexSize /\ matchCount(matches) = "one"
        THEN Resolved(CHOOSE c \in matches : TRUE, "prefix")
        ELSE IF Len(rev) >= MinPrefix /\ Len(rev) < HexSize /\ matchCount(matches) = "many"
        THEN Unresolved("ambiguous commit hash prefix")
        ELSE resolveByMapping(conf, rev)

\* resolveRevision with the prefix search and the mappings
resolveRevision(repo, conf, rev) ==
    LET exact == Reference(repo, rev)
        branch == Reference(repo, TxtRefsHeads \o rev)
        tag == Reference(repo, TxtRefsTags \o rev)
    IN  IF rev = TxtHEAD /\ RepoHead(repo).ok THEN Resolved(RepoHead(repo).hash, "HEAD")
        ELSE IF exact.ok THEN Resolved(exact.hash, "ref")
        ELSE IF branch.ok THEN Resolved(branch.hash, "branch")
        ELSE IF tag.ok THEN Resolved(tag.hash, "tag")
        ELSE IF Len(rev) = HexSize /\ IsHash(rev) /\ NewHash(rev) \in repo.commits
        THEN Resolved(NewHash(rev), "hash")
        ELSE resolveByPrefix(repo, conf, rev)

\* resolveRevision of the other copy of the show command
resolveRevision004(repo, rev) ==
    LET exact == Reference(repo, rev)
        branch == Reference(repo, TxtRefsHeads \o rev)
        tag == Reference(repo, TxtRefsTags \o rev)
    IN  IF exact.ok THEN Resolved(exact.hash, "ref")
        ELSE IF IsHash(rev) THEN Resolved(NewHash(rev), "hash")
        ELSE IF branch.ok THEN Resolved(branch.hash, "branch")
        ELSE IF tag.ok THEN Resolved(tag.hash, "tag")
        ELSE IF rev = TxtHEAD /\ RepoHead(repo).ok THEN Resolved(RepoHead(repo).hash, "HEAD")
        ELSE Unresolved("revision not found")

InitResolve ==
    /\ hcall = <<>>
    /\ env = [pubkey |-> KeyNone, now |-> 0]
    /\ IdleRepo
    /\ rrepo \in Repos
    /\ \E c \in Confs, ms \in MappingLists :
          rconf = [envSet |-> c.envSet, envVal |-> c.envVal, local |-> c.local,
                   global |-> c.global, mappings |-> ms]
    /\ res = NoRes
    /\ IdleCall

DoResolveRevision ==
    /\ res.impl = "none"
    /\ \E rev \in Revs :
          LET r == resolveRevision(rrepo, rconf, rev)
          IN  res' = [impl |-> "resolveRevision", rev |-> rev, hash |-> r.hash,
                      err |-> r.err, by |-> r.by]
    /\ UNCHANGED <<rrepo, rconf, varsHash, varsRepo, varsCall>>

DoResolveRevision004 ==
    /\ res.impl = "none"
    /\ \E rev \in Revs :
          LET r == resolveRevision004(rrepo, rev)
          IN  res' = [impl |-> "resolveRevision004", rev |-> rev, hash |-> r.hash,
                      err |-> r.err, by |-> r.by]
    /\ UNCHANGED <<rrepo, rconf, varsHash, varsRepo, varsCall>>

NextResolve ==
    \/ DoResolveRevision
    \/ DoResolveRevision004

SpecResolve == InitResolve /\ [][NextResolve]_vars


-----------------------------------------------------------------------------
(* GetConfigValue (src/main.go:307-345) and the Config it reads            *)

DOT == 46
UNDERSCORE == 95
TxtMGIT == <<77, 71, 73, 84, 95>>
TxtUser == <<117, 115, 101, 114>>
TxtName == <<110, 97, 109, 101>>
TxtCore == <<99, 111, 114, 101>>
KeyUserName == <<117, 115, 101, 114, 46, 110, 97, 109, 101>>
KeyUserNameMixed == <<85, 115, 101, 114, 46, 110, 97, 109, 101>>
KeyThreeParts == <<99, 111, 114, 101, 46, 97, 46, 98>>
KeyNoDot == <<117, 115, 101, 114>>
ValEnv == <<101>>
ValLocal == <<108>>
ValGlobal == <<103>>
ValDefault == <<100>>

\* strings.ToUpper on ASCII text
ToUpper(s) == [i \in 1..Len(s) |-> IF s[i] >= 97 /\ s[i] <= 122 THEN s[i] - 32 ELSE s[i]]

\* strings.Replace(s, old, new, -1) for one-character old and new
ReplaceChar(s, old, new) == [i \in 1..Len(s) |-> IF s[i] = old THEN new ELSE s[i]]

\* the position of the first occurrence of the character, 0 if there is none
IndexOf(s, c) ==
    LET hits == {i \in 1..Len(s) : s[i] = c}
    IN  IF hits = {} THEN 0 ELSE CHOOSE i \in hits : \A j \in hits : i <= j

\* strings.SplitN(s, sep, 2) for a one-character separator
SplitN2(s, sep) ==
    LET i == IndexOf(s, sep)
    IN  IF i = 0 THEN <<s>> ELSE <<SubSeq(s, 1, i - 1), SubSeq(s, i + 1, Len(s))>>

\* a lookup of the environment that treats an empty variable as unset
LookupEnvNonEmpty(environ, name) ==
    IF name \in DOMAIN environ /\ environ[name] # <<>>
    THEN [value |-> environ[name], exists |-> TRUE]
    ELSE [value |-> <<>>, exists |-> FALSE]

\* os.LookupEnv: the environment is a function from the names set to values
LookupEnv(environ, name) ==
    IF name \in DOMAIN environ THEN [value |-> environ[name], exists |-> TRUE]
    ELSE [value |-> <<>>, exists |-> FALSE]

\* a config file on disk: absent, unreadable, or holding sections of values
FileMissing == [state |-> "missing", Sections |-> <<>>]
FileUnreadable == [state |-> "unreadable", Sections |-> <<>>]
FileWith(sections) == [state |-> "present", Sections |-> sections]

\* LoadConfig: an absent file is an empty Config, an unreadable one an error
LoadConfig(file) ==
    IF file.state = "unreadable" THEN [err |-> TRUE, Sections |-> <<>>]
    ELSE [err |-> FALSE, Sections |-> file.Sections]

\* Config.Get: the value of the key in the section, "" when either is absent
ConfigGet(config, section, key) ==
    IF section \in DOMAIN config.Sections /\ key \in DOMAIN config.Sections[section]
    THEN config.Sections[section][key]
    ELSE <<>>

\* GetConfigValue for any key: the environment, then the local config file,
\* then the global one, then the default
GetConfigValueOfKey(key, defaultValue, environ, localFile, globalFile) ==
    LET envKey == TxtMGIT \o ToUpper(ReplaceChar(key, DOT, UNDERSCORE))
        looked == LookupEnv(environ, envKey)
        parts == SplitN2(key, DOT)
        section == parts[1]
        name == parts[2]
        localConfig == LoadConfig(localFile)
        localValue == ConfigGet(localConfig, section, name)
        globalConfig == LoadConfig(globalFile)
        globalValue == ConfigGet(globalConfig, section, name)
    IN  IF looked.exists THEN looked.value
        ELSE IF Len(parts) # 2 THEN defaultValue
        ELSE IF ~localConfig.err /\ localValue # <<>> THEN localValue
        ELSE IF ~globalConfig.err /\ globalValue # <<>> THEN globalValue
        ELSE defaultValue

\* the keys asked for, the environments and the config files of the calls
ConfigKeys == {KeyUserName, KeyUserNameMixed, KeyThreeParts, KeyNoDot}
EnvNames == {TxtMGIT \o ToUpper(ReplaceChar(KeyUserName, DOT, UNDERSCORE)),
             TxtMGIT \o ToUpper(ReplaceChar(KeyThreeParts, DOT, UNDERSCORE))}
Environs == UNION {[names -> {<<>>, ValEnv}] : names \in SUBSET EnvNames}
ConfigFiles(v) ==
    {FileMissing, FileUnreadable, FileWith(<<>>),
     FileWith(TxtUser :> (TxtName :> v)),
     FileWith(TxtUser :> (TxtName :> <<>>)),
     FileWith(TxtCore :> (TxtName :> v))}

InitConfig ==
    /\ hcall = <<>>
    /\ env = [pubkey |-> KeyNone, now |-> 0]
    /\ IdleRepo
    /\ IdleResolve
    /\ \E key \in ConfigKeys, defaultValue \in {<<>>, ValDefault}, environ \in Environs,
          localFile \in ConfigFiles(ValLocal), globalFile \in ConfigFiles(ValGlobal) :
          call = [op |-> "GetConfigValue", key |-> key, defaultValue |-> defaultValue,
                  environ |-> environ, localFile |-> localFile, globalFile |-> globalFile]
    /\ out = NoOut

DoGetConfigValue ==
    /\ call.op = "GetConfigValue"
    /\ out = NoOut
    /\ out' = [op |-> "GetConfigValue",
               value |-> GetConfigValueOfKey(call.key, call.defaultValue, call.environ,
                                             call.localFile, call.globalFile)]
    /\ UNCHANGED <<call, varsHash, varsRepo, varsResolve>>

NextConfig == DoGetConfigValue

SpecConfig == InitConfig /\ [][NextConfig]_vars


-----------------------------------------------------------------------------
(* main (src/main.go:17-54): the dispatch on the first argument            *)

\* the cases of the switch, each with the handler it calls
Commands ==
    {"init", "clone", "add", "commit", "push", "pull", "status", "branch", "checkout",
     "log", "config"}

\* what a handler does about a repository when it gets that far: initRepo and
\* cloneRepo create one, handleConfig touches none, the others call getRepo
RepoUse(handler) ==
    IF handler = "none" \/ handler = "config" THEN "none"
    ELSE IF handler \in {"init", "clone"} THEN "created"
    ELSE "opened"

\* a switch whose default case runs showStatus
HandlerOfOrStatus(command) == IF command \in Commands THEN command ELSE "status"

\* the handler the switch selects, "none" in the default case
HandlerOf(command) == IF command \in Commands THEN command ELSE "none"

\* main: what is printed, the handler run, its use of a repository and the
\* exit status; handlerExit is the status the handler ends the process with
main(osArgs, handlerExit) ==
    IF Len(osArgs) < 2
    THEN [printed |-> <<"usage">>, handler |-> "none", repo |-> "none", exit |-> 1]
    ELSE LET command == osArgs[2]
             handler == HandlerOf(command)
         IN  IF handler = "none"
             THEN [printed |-> <<"Unknown command", "usage">>, handler |-> "none",
                   repo |-> "none", exit |-> 1]
             ELSE [printed |-> <<>>, handler |-> handler, repo |-> RepoUse(handler),
                   exit |-> handlerExit]

\* first arguments that are no command, and the command lines tried
OtherWords == {"invalid-command", "--help", "", "Init", "verify", "show", "commits"}
CommandLines ==
    {<<"mgit">>} \cup
    {<<"mgit", c>> \o rest : c \in Commands \cup OtherWords, rest \in {<<>>, <<"-m">>, <<"init">>}}

InitMain ==
    /\ hcall = <<>>
    /\ env = [pubkey |-> KeyNone, now |-> 0]
    /\ git \in ClonedRepos
    /\ mgit = EmptyMGit
    /\ ret = NoRet
    /\ created = <<>>
    /\ IdleResolve
    /\ call \in {[op |-> "main", osArgs |-> a] : a \in CommandLines}
    /\ out = NoOut

\* one run of the binary; the handlers themselves are not followed
DoMain ==
    /\ call.op = "main"
    /\ out = NoOut
    /\ \E handlerExit \in {0, 1} :
          LET r == main(call.osArgs, handlerExit)
          IN  out' = [op |-> "main", printed |-> r.printed, handler |-> r.handler,
                      repo |-> r.repo, exit |-> r.exit]
    /\ UNCHANGED <<call, varsHash, varsRepo, varsResolve>>

NextMain == DoMain

SpecMain == InitMain /\ [][NextMain]_vars


-----------------------------------------------------------------------------
(* cloneRepository, step by step (src/unnamed/part_000:204-246 and         *)
(* src/unnamed/part_001:161-195)                                           *)

\* the calls cloneRepository makes, in the order of part_000
CloneSteps ==
    <<"MkdirAll", "fetchRepositoryInfo", "gitClone", "fetchMGitMetadata",
      "reconstructMGitObjects", "setupMGitConfig">>

\* the two files that define cloneRepository
CloneImpls == {"part_000", "part_001"}

\* the steps whose failure the file only warns about
WarnOnly(impl) ==
    IF impl = "part_000" THEN {"fetchMGitMetadata", "reconstructMGitObjects"} ELSE {}

\* the steps the file does not have
Absent(impl) == IF impl = "part_001" THEN {"reconstructMGitObjects"} ELSE {}

\* the number of the next step the file has after the k-th, 0 after the last
NextStep(impl, k) ==
    LET later == {j \in (k + 1)..Len(CloneSteps) : CloneSteps[j] \notin Absent(impl)}
    IN  IF later = {} THEN 0 ELSE CHOOSE j \in later : \A i \in later : j <= i

\* a call that has not started
CloneStart == [op |-> "cloneRepository", pc |-> 1, log |-> <<>>, warnings |-> <<>>,
               err |-> "", returned |-> FALSE]

InitCloneSteps ==
    /\ hcall = <<>>
    /\ env = [pubkey |-> KeyNone, now |-> 0]
    /\ IdleRepo
    /\ IdleResolve
    /\ \E impl \in CloneImpls, fails \in SUBSET {CloneSteps[k] : k \in 1..Len(CloneSteps)} :
          call = [op |-> "cloneRepository", impl |-> impl, fails |-> fails]
    /\ out = CloneStart

\* the step numbered k runs: on failure the call returns the error, or only
\* warns and goes on; after the last step the call returns nil
CloneStep(k) ==
    /\ call.op = "cloneRepository"
    /\ ~out.returned
    /\ out.pc = k
    /\ LET step == CloneSteps[k]
           failed == step \in call.fails
           next == NextStep(call.impl, k)
           ran == [out EXCEPT !.log = Append(@, step)]
       IN  out' = IF failed /\ step \notin WarnOnly(call.impl)
                  THEN [ran EXCEPT !.err = step, !.returned = TRUE]
                  ELSE [ran EXCEPT !.warnings = IF failed THEN Append(@, step) ELSE @,
                                   !.pc = next, !.returned = (next = 0)]
    /\ UNCHANGED <<call, varsHash, varsRepo, varsResolve>>

DoMkdirAll == CloneStep(1)
DoFetchRepositoryInfo == CloneStep(2)
DoGitClone == CloneStep(3)
DoFetchMGitMetadataStep == CloneStep(4)
DoReconstructMGitObjectsStep == CloneStep(5)
DoSetupMGitConfig == CloneStep(6)

NextCloneSteps ==
    \/ DoMkdirAll
    \/ DoFetchRepositoryInfo
    \/ DoGitClone
    \/ DoFetchMGitMetadataStep
    \/ DoReconstructMGitObjectsStep
    \/ DoSetupMGitConfig

SpecCloneSteps == InitCloneSteps /\ [][NextCloneSteps]_vars


-----------------------------------------------------------------------------
(* The traversals of HandleMGitLog (src/README.md:137-194) and of          *)
(* HandleMGitVerify (src/README.md:233-260), one loop iteration at a time  *)

\* identity hashes of the stores walked; no record is stored under KD
KA == <<97>>
KB == <<98>>
KC == <<99>>
KD == <<100>>

\* parent lists a stored record may hold: none, one, two, a hash twice, the
\* record itself, a hash with no record
WalkParents ==
    {<<>>, <<KA>>, <<KB>>, <<KC>>, <<KD>>, <<KB, KC>>, <<KC, KB>>, <<KB, KB>>, <<KD, KA>>}

\* a record of the Commit Store, stored under its MGitHash
WalkRecord(h, parents) == [MGitHash |-> h, ParentHashes |-> parents]

\* the stores: any records under KA, KB and KC, cycles included, and a HEAD at
\* KA or none
WalkStores ==
    {[EmptyMGit EXCEPT !.objects = [h \in ks |-> WalkRecord(h, ps[h])], !.head = hd] :
        ks \in SUBSET {KA, KB, KC}, ps \in [{KA, KB, KC} -> WalkParents],
        hd \in {NoHead, [kind |-> "hash", name |-> "", hash |-> KA]}}

\* the values of maxCount: the default and what -n may set
MaxCounts == {0, 1, 2, 10}

\* a call that has not started
WalkStart == [op |-> "none", queue |-> <<>>, visited |-> {}, processed |-> <<>>,
              warned |-> <<>>, count |-> 0, iterations |-> 0, returned |-> FALSE, exit |-> 0]

InitWalk ==
    /\ hcall = <<>>
    /\ env = [pubkey |-> KeyNone, now |-> 0]
    /\ git = EmptyGit
    /\ mgit \in WalkStores
    /\ ret = NoRet
    /\ created = <<>>
    /\ IdleResolve
    /\ call \in {[op |-> "HandleMGitVerify", maxCount |-> 0]}
                \cup {[op |-> "HandleMGitLog", maxCount |-> n] : n \in MaxCounts}
    /\ out = WalkStart

\* README.md:142-168: HEAD is loaded and printed, its parents are queued
DoLogStart ==
    /\ call.op = "HandleMGitLog"
    /\ out.op = "none"
    /\ LET head == GetHeadCommit(mgit)
       IN  out' = IF ~head.ok
                  THEN [out EXCEPT !.op = call.op, !.returned = TRUE, !.exit = 1]
                  ELSE [out EXCEPT !.op = call.op,
                                   !.processed = <<head.commit.MGitHash>>,
                                   !.count = 1,
                                   !.visited = {head.commit.MGitHash},
                                   !.queue = head.commit.ParentHashes]
    /\ UNCHANGED <<call, varsHash, varsRepo, varsResolve>>


\* a loop iteration that prints the commit and does not mark it visited
DoLogStepRevisiting ==
    /\ call.op = "HandleMGitLog"
    /\ out.op = "HandleMGitLog"
    /\ ~out.returned
    /\ LET currentHash == Head(out.queue)
           rest == [out EXCEPT !.queue = Tail(@), !.iterations = @ + 1]
           got == GetCommit(mgit.objects, currentHash)
           Unvisited(p) == p \notin out.visited
       IN  out' = IF ~(Len(out.queue) > 0 /\ out.count < call.maxCount)
                  THEN [out EXCEPT !.returned = TRUE]
                  ELSE IF currentHash \in out.visited THEN rest
                  ELSE IF ~got.ok THEN [rest EXCEPT !.warned = Append(@, currentHash)]
                  ELSE [rest EXCEPT !.processed = Append(@, currentHash),
                                    !.count = @ + 1,
                                    !.queue = @ \o SelectSeq(got.commit.ParentHashes, Unvisited)]
    /\ UNCHANGED <<call, varsHash, varsRepo, varsResolve>>

\* README.md:170-193: the loop test, and one iteration of the loop
DoLogStep ==
    /\ call.op = "HandleMGitLog"
    /\ out.op = "HandleMGitLog"
    /\ ~out.returned
    /\ LET currentHash == Head(out.queue)
           rest == [out EXCEPT !.queue = Tail(@), !.iterations = @ + 1]
           got == GetCommit(mgit.objects, currentHash)
           Unvisited(p) == p \notin out.visited \cup {currentHash}
       IN  out' = IF ~(Len(out.queue) > 0 /\ out.count < call.maxCount)
                  THEN [out EXCEPT !.returned = TRUE]
                  ELSE IF currentHash \in out.visited THEN rest
                  ELSE IF ~got.ok THEN [rest EXCEPT !.warned = Append(@, currentHash)]
                  ELSE [rest EXCEPT !.processed = Append(@, currentHash),
                                    !.count = @ + 1,
                                    !.visited = @ \cup {currentHash},
                                    !.queue = @ \o SelectSeq(got.commit.ParentHashes, Unvisited)]
    /\ UNCHANGED <<call, varsHash, varsRepo, varsResolve>>

\* README.md:227-236: HEAD is loaded and queued
DoVerifyStart ==
    /\ call.op = "HandleMGitVerify"
    /\ out.op = "none"
    /\ LET head == GetHeadCommit(mgit)
       IN  out' = IF ~head.ok
                  THEN [out EXCEPT !.op = call.op, !.returned = TRUE, !.exit = 1]
                  ELSE [out EXCEPT !.op = call.op, !.queue = <<head.commit.MGitHash>>]
    /\ UNCHANGED <<call, varsHash, varsRepo, varsResolve>>

\* README.md:238-260: the loop test, and one iteration of the loop; the walk
\* is over when the queue is empty
DoVerifyStep ==
    /\ call.op = "HandleMGitVerify"
    /\ out.op = "HandleMGitVerify"
    /\ ~out.returned
    /\ LET current == Head(out.queue)
           rest == [out EXCEPT !.queue = Tail(@), !.iterations = @ + 1]
           got == GetCommit(mgit.objects, current)
           Unvisited(p) == p \notin out.visited \cup {current}
       IN  out' = IF ~(Len(out.queue) > 0)
                  THEN [out EXCEPT !.returned = TRUE]
                  ELSE IF current \in out.visited THEN rest
                  ELSE IF ~got.ok THEN [rest EXCEPT !.warned = Append(@, current)]
                  ELSE [rest EXCEPT !.processed = Append(@, current),
                                    !.visited = @ \cup {current},
                                    !.queue = @ \o SelectSeq(got.commit.ParentHashes, Unvisited)]
    /\ UNCHANGED <<call, varsHash, varsRepo, varsResolve>>

NextWalk ==
    \/ DoLogStart
    \/ DoLogStep
    \/ DoVerifyStart
    \/ DoVerifyStep

SpecWalk == InitWalk /\ [][NextWalk]_vars

-----------------------------------------------------------------------------
(* HandleMGitCommit (src/README.md:91-134)                                 *)

TxtDashM == <<45, 109>>
TxtEmail == <<101, 109, 97, 105, 108>>
TxtPubkey == <<112, 117, 98, 107, 101, 121>>
KeyUserEmail == <<117, 115, 101, 114, 46, 101, 109, 97, 105, 108>>
KeyUserPubkey == <<117, 115, 101, 114, 46, 112, 117, 98, 107, 101, 121>>

\* the loop of README.md:94-99: the argument after the first -m that has one
MessageOf(args) ==
    LET at == {i \in 1..Len(args) : args[i] = TxtDashM /\ i + 1 <= Len(args)}
    IN  IF at = {} THEN <<>> ELSE args[(CHOOSE i \in at : \A j \in at : i <= j) + 1]

\* a test that lets the commit go on with one of the two set
MissingIdentityBoth(userName, userEmail) == userName = <<>> /\ userEmail = <<>>

\* the test of README.md:111
MissingIdentity(userName, userEmail) == userName = <<>> \/ userEmail = <<>>

\* HandleMGitCommit: the exit status, whether MGitCommit was called and what
\* it returned, the repository afterwards
HandleMGitCommit(g, args, environ, localFile, globalFile, now, tree, fault) ==
    LET message == MessageOf(args)
        userName == GetConfigValueOfKey(KeyUserName, <<>>, environ, localFile, globalFile)
        userEmail == GetConfigValueOfKey(KeyUserEmail, <<>>, environ, localFile, globalFile)
        userPubkey == GetConfigValueOfKey(KeyUserPubkey, <<>>, environ, localFile, globalFile)
        opts == [Author |-> [Name |-> userName, Email |-> userEmail, Pubkey |-> userPubkey,
                             When |-> now],
                 HasCommitter |-> FALSE, Committer |-> CommitterSig]
        r == MGitCommit(g, message, opts, tree, fault)
    IN  IF message = <<>>
        THEN [exit |-> 1, printed |-> "Usage: mgit commit -m <message>", called |-> FALSE,
              git |-> g, r |-> <<>>]
        ELSE IF MissingIdentity(userName, userEmail)
        THEN [exit |-> 1, printed |-> "Please set your user name and email first:",
              called |-> FALSE, git |-> g, r |-> <<>>]
        ELSE IF r.err # ""
        THEN [exit |-> 1, printed |-> "Error committing changes", called |-> TRUE,
              git |-> r.git, r |-> r]
        ELSE [exit |-> 0, printed |-> "Committed changes", called |-> TRUE,
              git |-> r.git, r |-> r]

\* the command lines, the environments and the config files of the calls
CommitArgs ==
    {<<>>, <<TxtDashM>>, <<TxtDashM, TxtMsg1>>, <<TxtDashM, <<>>>>, <<TxtA, TxtDashM, TxtMsg1>>}
EnvOf(key) == TxtMGIT \o ToUpper(ReplaceChar(key, DOT, UNDERSCORE))
CommitEnvirons ==
    UNION {[names -> {<<>>, ValEnv}] : names \in SUBSET {EnvOf(KeyUserName), EnvOf(KeyUserEmail)}}
LocalFiles ==
    {FileMissing, FileUnreadable,
     FileWith(TxtUser :> (TxtName :> TxtA @@ TxtEmail :> TxtMail @@ TxtPubkey :> Key1)),
     FileWith(TxtUser :> (TxtName :> TxtA)),
     FileWith(TxtUser :> (TxtName :> <<>> @@ TxtEmail :> TxtMail))}
GlobalFiles ==
    {FileMissing,
     FileWith(TxtUser :> (TxtEmail :> TxtMail)),
     FileWith(TxtUser :> (TxtName :> TxtB @@ TxtEmail :> TxtMail))}

\* mgit commit is about to run in a repository with or without a commit
InitHandleCommit ==
    /\ hcall = <<>>
    /\ env = [pubkey |-> KeyNone, now |-> 0]
    /\ git \in {EmptyGit, OnMaster(Chain(1))}
    /\ created = IdentityOf(git.objects)
    /\ mgit = EmptyMGit
    /\ ret = NoRet
    /\ IdleResolve
    /\ \E args \in CommitArgs, environ \in CommitEnvirons, localFile \in LocalFiles,
          globalFile \in GlobalFiles :
          call = [op |-> "HandleMGitCommit", args |-> args, environ |-> environ,
                  localFile |-> localFile, globalFile |-> globalFile]
    /\ out = NoOut

DoHandleMGitCommit ==
    /\ call.op = "HandleMGitCommit"
    /\ out = NoOut
    /\ \E tree \in WorkTrees, fault \in CommitFaults :
          LET h == HandleMGitCommit(git, call.args, call.environ, call.localFile,
                                    call.globalFile, 12, tree, fault)
          IN  /\ out' = [op |-> "HandleMGitCommit", exit |-> h.exit, printed |-> h.printed,
                         called |-> h.called]
              /\ git' = h.git
              /\ ret' = IF h.called
                        THEN [NoRet EXCEPT !.op = "MGitCommit", !.err = h.r.err,
                                           !.hash = h.r.hash, !.native = h.r.native,
                                           !.calls = h.r.calls]
                        ELSE ret
              /\ created' = IF h.called /\ h.r.calls # <<>>
                            THEN Put(created, h.r.native,
                                     [parents |-> h.r.calls[1].parents, mhash |-> h.r.hash])
                            ELSE created
    /\ UNCHANGED <<mgit, call, varsHash, varsResolve>>

NextHandleCommit == DoHandleMGitCommit

SpecHandleCommit == InitHandleCommit /\ [][NextHandleCommit]_vars

-----------------------------------------------------------------------------
(* extractRepoID and extractServerBaseURL (src/unnamed/part_000:296-316,   *)
(* src/unnamed/part_001:245-260) and the endpoints built from them         *)

SLASH == 47
TxtDotGit == <<46, 103, 105, 116>>
TxtApiRepos == <<47, 97, 112, 105, 47, 109, 103, 105, 116, 47, 114, 101, 112, 111, 115, 47>>

\* longest server base of the URLs tried
MaxBaseLen == 3

\* strings.HasSuffix and strings.TrimSuffix
HasSuffix(s, suffix) ==
    Len(suffix) <= Len(s) /\ SubSeq(s, Len(s) - Len(suffix) + 1, Len(s)) = suffix
TrimSuffix(s, suffix) ==
    IF HasSuffix(s, suffix) THEN SubSeq(s, 1, Len(s) - Len(suffix)) ELSE s

\* strings.LastIndex for a one-character separator, counted from 1; 0 if absent
LastIndex(s, c) ==
    LET hits == {i \in 1..Len(s) : s[i] = c}
    IN  IF hits = {} THEN 0 ELSE CHOOSE i \in hits : \A j \in hits : i >= j

\* parts[len(parts)-1] of strings.Split(s, "/")
LastPart(s) == SubSeq(s, LastIndex(s, SLASH) + 1, Len(s))

\* part_000:297-304
extractRepoID000(url) == LastPart(TrimSuffix(TrimSuffix(url, <<SLASH>>), TxtDotGit))

\* part_000:307-316
extractServerBaseURL000(url) ==
    LET repoID == extractRepoID000(url)
        baseURL == TrimSuffix(url, <<SLASH>> \o repoID)
    IN  TrimSuffix(baseURL, repoID)

\* part_001:246-249
extractRepoID001(url) == LastPart(url)

\* part_001:252-260
extractServerBaseURL001(url) ==
    LET lastSlashIndex == LastIndex(url, SLASH)
    IN  IF lastSlashIndex = 0 THEN url ELSE SubSeq(url, 1, lastSlashIndex - 1)

extractRepoID(impl, url) ==
    IF impl = "part_000" THEN extractRepoID000(url) ELSE extractRepoID001(url)
extractServerBaseURL(impl, url) ==
    IF impl = "part_000" THEN extractServerBaseURL000(url) ELSE extractServerBaseURL001(url)

\* the address fetchRepositoryInfo, gitClone and fetchMGitMetadata start
\* theirs with (part_000:262, 326, 356)
EndpointOf(impl, url) ==
    extractServerBaseURL(impl, url) \o TxtApiRepos \o extractRepoID(impl, url)

\* the URLs passed: base + "/" + id, then ".git" or not, then "/" or not
UrlBases == UNION {[1..n -> {104, 97, SLASH}] : n \in 0..MaxBaseLen}
UrlIds == {<<97>>, <<97, 98>>, <<104, 97>>, <<104>>}
UrlOf(base, id, dotGit, slash) ==
    base \o <<SLASH>> \o id \o (IF dotGit THEN TxtDotGit ELSE <<>>)
         \o (IF slash THEN <<SLASH>> ELSE <<>>)

InitExtract ==
    /\ hcall = <<>>
    /\ env = [pubkey |-> KeyNone, now |-> 0]
    /\ IdleRepo
    /\ IdleResolve
    /\ \E impl \in CloneImpls, base \in UrlBases, id \in UrlIds, dotGit \in BOOLEAN,
          slash \in BOOLEAN :
          call = [op |-> "extract", impl |-> impl, base |-> base, id |-> id,
                  dotGit |-> dotGit, slash |-> slash, url |-> UrlOf(base, id, dotGit, slash)]
    /\ out = NoOut

DoExtract ==
    /\ call.op = "extract"
    /\ out = NoOut
    /\ out' = [op |-> "extract",
               repoID |-> extractRepoID(call.impl, call.url),
               serverBaseURL |-> extractServerBaseURL(call.impl, call.url),
               endpoint |-> EndpointOf(call.impl, call.url)]
    /\ UNCHANGED <<call, varsHash, varsRepo, varsResolve>>

NextExtract == DoExtract

SpecExtract == InitExtract /\ [][NextExtract]_vars

-----------------------------------------------------------------------------
(* Claims about the hash function                                          *)

\* the concatenation the hash is specified to digest, written out
SpecifiedStream(c, k) ==
    c.TreeHash
        \o Concat(c.ParentHashes)
        \o (c.Author.Name \o <<32, 60>> \o c.Author.Email \o <<62, 32>>
              \o FormatInt(c.Author.When) \o <<32>> \o k)
        \o (c.Committer.Name \o <<32, 60>> \o c.Committer.Email \o <<62, 32>>
              \o FormatInt(c.Committer.When))
        \o c.Message

\* the two recorded calls differ in the order of two distinct parents only
SwappedParents(x, y) ==
    /\ x.pubkey = y.pubkey
    /\ Len(x.commit.ParentHashes) = 2
    /\ x.commit.ParentHashes[1] # x.commit.ParentHashes[2]
    /\ y.commit = [x.commit EXCEPT
            !.ParentHashes = <<x.commit.ParentHashes[2], x.commit.ParentHashes[1]>>]

\* C2: computeMGitHash digests exactly tree hash, parent hashes in list order,
\* author text with the identity key, committer text and message, in that
\* order; two inputs that differ only in the identity key, or only in the
\* order of two distinct parents, are fed different byte strings.
C2_StreamIsSpecifiedConcatenation ==
    /\ \A i \in 1..Len(hcall) :
          hcall[i].fed = SpecifiedStream(hcall[i].commit, hcall[i].pubkey)
    /\ Len(hcall) = 2 =>
          /\ (hcall[1].commit = hcall[2].commit /\ hcall[1].pubkey # hcall[2].pubkey)
                => hcall[1].fed # hcall[2].fed
          /\ SwappedParents(hcall[1], hcall[2]) => hcall[1].fed # hcall[2].fed

\* two calls on a merge commit, differing in the identity key only
C2_Witness ==
    /\ Len(hcall) = 2
    /\ hcall[1].commit = hcall[2].commit
    /\ hcall[1].commit.ParentHashes = <<HashOf(3), HashOf(4)>>
    /\ hcall[1].commit.Author # hcall[1].commit.Committer
    /\ hcall[1].pubkey = Key1
    /\ hcall[2].pubkey = Key2

-----------------------------------------------------------------------------
(* Claims about the commit operation                                       *)

\* C1: a commit created by MGitCommit with no identity key returns the native
\* hash of the commit just created, unchanged; no identity hash is computed and
\* nothing is stored; computeMGitHash is called only when the key is non-empty.
C1_NoKeyReturnsNativeHash ==
    [][(git'.objects # git.objects) =>
          /\ ret'.op = "MGitCommit"
          /\ ret'.pubkey = KeyNone =>
                /\ ret'.err = ""
                /\ ret'.hash = ret'.native
                /\ ret'.native \in DOMAIN git'.objects \ DOMAIN git.objects
                /\ ret'.calls = <<>>
                /\ created' = created
                /\ mgit' = mgit
          /\ ret'.calls # <<>> => ret'.pubkey # KeyNone]_vars

\* a second commit made without a key, returning its native hash
C1_Witness ==
    /\ ret.op = "MGitCommit"
    /\ ret.err = ""
    /\ ret.pubkey = KeyNone
    /\ ret.hash = GitHashOfNth(2)
    /\ ret.hash \in DOMAIN git.objects

\* C5: after a commit operation with an identity key completes successfully,
\* the Commit Store holds the Object Record under the computed identity hash and
\* the Mapping Store holds the (native hash, identity hash) pair.
C5_CommitPersistsRecordAndMapping ==
    (ret.op = "MGitCommit" /\ ret.err = "" /\ ret.pubkey # KeyNone) =>
        /\ HashString(ret.hash) \in DOMAIN mgit.objects
        /\ GetMGitHash(mgit, ret.native).err = ""
        /\ \E i \in 1..Len(mgit.mappings) :
              /\ mgit.mappings[i].GitHash = HashString(ret.native)
              /\ mgit.mappings[i].MGitHash = HashString(ret.hash)

-----------------------------------------------------------------------------
(* Claims about reconstruction and verification                            *)

\* the raw bytes of each hash of a list of hash strings
RawHashes(hs) == [i \in 1..Len(hs) |-> DecodeHex(hs[i])]

\* C4: for every commit with at least one parent, the parent list MGitCommit
\* feeds to the hash function is the list HandleMGitVerify feeds when it
\* recomputes the hash, so a record whose identity hash was produced at commit
\* time is reproduced exactly by verify.
C4_VerifyFeedsCreationParents ==
    ret.op = "HandleMGitVerify" =>
        \A h \in DOMAIN ret.checked :
            LET g == NewHash(mgit.objects[h].GitHash)
            IN  (/\ g \in DOMAIN created
                 /\ HashString(created[g].mhash) = h
                 /\ created[g].parents # <<>>)
                    => /\ RawHashes(ret.checked[h].fed) = created[g].parents
                       /\ ret.checked[h].expected = h

\* C10: for every mapping entry whose native commit exists, the record that
\* reconstructMGitObjects stores has tree hash, message, author and committer
\* equal to those of the native commit, with the mapping's identity key added
\* to both signatures, also when the committer differs from the author.
C10_RecordCopiesNativeCommit ==
    ret.op = "reconstructMGitObjects" =>
        \A k \in 1..Len(ret.log) :
            ret.log[k].ev = "store" =>
                LET rec == ret.log[k].val
                    mapping == mgit.mappings[ret.log[k].i]
                    commit == git.objects[NewHash(mapping.GitHash)]
                IN  /\ rec.TreeHash = HashString(commit.TreeHash)
                    /\ rec.Message = commit.Message
                    /\ rec.Author = [Name |-> commit.Author.Name, Email |-> commit.Author.Email,
                                     Pubkey |-> mapping.Pubkey, When |-> commit.Author.When]
                    /\ rec.Committer = [Name |-> commit.Committer.Name,
                                        Email |-> commit.Committer.Email,
                                        Pubkey |-> mapping.Pubkey,
                                        When |-> commit.Committer.When]

-----------------------------------------------------------------------------
(* Claims about resolveRevision                                            *)

\* rev names no reference: not exactly, not as a branch, not as a tag
NoReference(repo, rev) ==
    /\ ~Reference(repo, rev).ok
    /\ ~Reference(repo, TxtRefsHeads \o rev).ok
    /\ ~Reference(repo, TxtRefsTags \o rev).ok

\* rev is the full hash of a commit of the repository
FullHashExists(repo, rev) == IsHash(rev) /\ NewHash(rev) \in repo.commits

\* the commits a prefix of 4 to 39 characters selects
PrefixCandidates(repo, rev) ==
    IF Len(rev) >= 4 /\ Len(rev) <= 39 THEN PrefixMatches(repo, rev) ELSE {}

\* the recorded call returned hash h without error
Returned(h) == res.err = "" /\ res.hash = h

\* the recorded call ended as the identity-hash strategy ends for conf
EndsAsIdentityStrategy(conf, rev) ==
    LET hits == MappingHits(conf.mappings, rev)
    IN  IF GetNostrPubKey(conf) # <<>> /\ hits # {}
        THEN Returned(NewHash(conf.mappings[FirstHit(hits)].GitHash))
        ELSE res.err = "revision not found"

\* C6: every resolution is decided by the first strategy that succeeds, in the
\* order exact reference, refs/heads/<name>, refs/tags/<name>, full native
\* hash of an existing commit, unique native-hash prefix, identity hash; so a
\* branch named by the forty hexadecimal digits of another commit's hash
\* resolves to the branch's target.
C6_FirstStrategyWins ==
    res.impl # "none" =>
        LET rev == res.rev
            exact == Reference(rrepo, rev)
            branch == Reference(rrepo, TxtRefsHeads \o rev)
            tag == Reference(rrepo, TxtRefsTags \o rev)
            cands == PrefixCandidates(rrepo, rev)
        IN  /\ exact.ok => Returned(exact.hash)
            /\ (~exact.ok /\ branch.ok) => Returned(branch.hash)
            /\ (~exact.ok /\ ~branch.ok /\ tag.ok) => Returned(tag.hash)
            /\ (NoReference(rrepo, rev) /\ FullHashExists(rrepo, rev))
                  => Returned(NewHash(rev))
            /\ (NoReference(rrepo, rev) /\ ~FullHashExists(rrepo, rev)
                  /\ Cardinality(cands) = 1)
                  => \E c \in cands : Returned(c)
            /\ (NoReference(rrepo, rev) /\ ~FullHashExists(rrepo, rev) /\ cands = {})
                  => EndsAsIdentityStrategy(rconf, rev)

\* C7: for a string of 4 to 39 characters that names no reference,
\* resolveRevision returns the one commit whose hash begins with it, fails as
\* ambiguous (going on to no later strategy) when several do, and ends as the
\* identity-hash strategy ends when none does.
C7_PrefixUniqueAmbiguousOrFallThrough ==
    (/\ res.impl = "resolveRevision"
     /\ Len(res.rev) >= 4 /\ Len(res.rev) <= 39
     /\ NoReference(rrepo, res.rev))
    => LET matches == PrefixMatches(rrepo, res.rev)
       IN  /\ Cardinality(matches) = 1 => \E c \in matches : Returned(c)
           /\ Cardinality(matches) > 1
                 => res.err = "ambiguous commit hash prefix" /\ res.hash = ZeroHash
           /\ matches = {} => EndsAsIdentityStrategy(rconf, res.rev)

\* two commits begin with the prefix asked for, a key is configured and a
\* mapping's identity hash begins with the prefix too: the call failed as
\* ambiguous
C7_Witness ==
    /\ res.impl = "resolveRevision"
    /\ Len(res.rev) = 4
    /\ NoReference(rrepo, res.rev)
    /\ Cardinality(PrefixMatches(rrepo, res.rev)) = 2
    /\ GetNostrPubKey(rconf) # <<>>
    /\ MappingHits(rconf.mappings, res.rev) # {}
    /\ res.err = "ambiguous commit hash prefix"

\* C8: with no identity key configured, a string that names no reference and
\* is no native commit hash or prefix fails with revision not found, whatever
\* the mappings hold.
C8_NoKeySkipsIdentityStrategy ==
    (/\ res.impl = "resolveRevision"
     /\ GetNostrPubKey(rconf) = <<>>
     /\ NoReference(rrepo, res.rev)
     /\ ~FullHashExists(rrepo, res.rev)
     /\ PrefixCandidates(rrepo, res.rev) = {})
    => res.err = "revision not found" /\ res.hash = ZeroHash

\* no key is configured, a mapping's identity hash equals the string asked
\* for, and the call failed with revision not found
C8_Witness ==
    /\ res.impl = "resolveRevision"
    /\ GetNostrPubKey(rconf) = <<>>
    /\ NoReference(rrepo, res.rev)
    /\ ~FullHashExists(rrepo, res.rev)
    /\ PrefixCandidates(rrepo, res.rev) = {}
    /\ \E i \in 1..Len(rconf.mappings) : rconf.mappings[i].MGitHash = res.rev
    /\ res.err = "revision not found"

\* C9: a string of forty hexadecimal digits that names no reference and is
\* the hash of no native commit is not returned as a hash; the resolution
\* ends as the later strategies end.
C9_FullHashOnlyIfCommitExists ==
    (/\ res.impl # "none"
     /\ IsHash(res.rev)
     /\ NoReference(rrepo, res.rev)
     /\ NewHash(res.rev) \notin rrepo.commits)
    => EndsAsIdentityStrategy(rconf, res.rev)

-----------------------------------------------------------------------------
(* Claims about the reconstruction of the identity graph                   *)

\* the mapping list holds an entry for the native hash
IsMapped(mappings, gitHash) ==
    \E i \in 1..Len(mappings) : mappings[i].GitHash = HashString(gitHash)

\* the records the finished run stored, with the entry each was built from
StoredEvents == {k \in 1..Len(ret.log) : ret.log[k].ev = "store"}

\* the k-th output of the run is a warning
IsWarning(k) == ret.log[k].ev \in {"warn-commit", "warn-store", "warn-branch", "warn-ref"}

\* the stored record lists the identity hashes of the mapped native parents,
\* in the native order
ParentsMappedInOrder(rec, commit) ==
    LET Mapped(p) == IsMapped(mgit.mappings, p)
        ps == SelectSeq(commit.ParentHashes, Mapped)
    IN  /\ Len(rec.ParentHashes) = Len(ps)
        /\ \A j \in 1..Len(ps) :
              \E i \in 1..Len(mgit.mappings) :
                  /\ mgit.mappings[i].GitHash = HashString(ps[j])
                  /\ mgit.mappings[i].MGitHash = rec.ParentHashes[j]

\* C11: the record stored for a mapping entry lists the identity hashes of
\* the native commit's mapped parents in the native parent order; a parent
\* with no mapping is left out and reported by a warning about that entry,
\* and the record is stored all the same.
C11_ParentsMappedSkippedAndReported ==
    ret.op = "reconstructMGitObjects" =>
        \A i \in 1..Len(mgit.mappings) :
            LET gitHash == NewHash(mgit.mappings[i].GitHash)
                commit == git.objects[gitHash]
            IN  (/\ gitHash \in DOMAIN git.objects
                 /\ \E k \in 1..Len(ret.log) : ret.log[k].i = i /\ ret.log[k].ev \in {"store", "warn-store"})
                => /\ \A k \in StoredEvents :
                         ret.log[k].i = i => ParentsMappedInOrder(ret.log[k].val, commit)
                   /\ \A j \in 1..Len(commit.ParentHashes) :
                         ~IsMapped(mgit.mappings, commit.ParentHashes[j])
                            => \E k \in 1..Len(ret.log) :
                                  /\ IsWarning(k)
                                  /\ ret.log[k].i = i
                                  /\ ret.log[k].val = HashString(commit.ParentHashes[j])

\* every hash of the mapping list is a whole hash in hexadecimal (Sha1Sum
\* keeps its input, so an identity hash is longer here than forty characters)
WellTyped(mappings) ==
    \A i \in 1..Len(mappings) :
        Len(mappings[i].GitHash) = HexSize /\ Len(mappings[i].MGitHash) >= HexSize

\* the finished run got as far as the walk over the branch references
WalkedBranches ==
    /\ ret.op = "reconstructMGitObjects"
    /\ mgit.hasMappings
    /\ mgit.wellFormed
    /\ ret.err \notin {"error initializing MGit storage", "panic"}

\* the outputs of the run about a branch
BranchEvents(b, kinds) ==
    {k \in 1..Len(ret.log) : ret.log[k].ev \in kinds /\ ret.log[k].name = b}

\* C12: once the commits are materialized the run walks every native branch:
\* a branch whose target has a mapping gets an identity reference of the same
\* name holding the mapped identity hash (or a warning that the store refused
\* the write), a branch whose target has none gets a warning and no reference.
C12_BranchesMappedOrWarned ==
    (WalkedBranches /\ WellTyped(mgit.mappings)) =>
        /\ \A b \in DOMAIN git.refs :
              IF IsMapped(mgit.mappings, git.refs[b])
              THEN /\ BranchEvents(b, {"warn-branch"}) = {}
                   /\ Cardinality(BranchEvents(b, {"ref", "warn-ref"})) = 1
                   /\ BranchEvents(b, {"ref"}) # {} =>
                         /\ b \in DOMAIN mgit.refs
                         /\ \E i \in 1..Len(mgit.mappings) :
                               /\ mgit.mappings[i].GitHash = HashString(git.refs[b])
                               /\ mgit.mappings[i].MGitHash = mgit.refs[b]
                   /\ BranchEvents(b, {"warn-ref"}) # {} => b \notin DOMAIN mgit.refs
              ELSE /\ Cardinality(BranchEvents(b, {"warn-branch"})) = 1
                   /\ BranchEvents(b, {"ref", "warn-ref"}) = {}
                   /\ b \notin DOMAIN mgit.refs
        /\ DOMAIN mgit.refs \subseteq DOMAIN git.refs
        /\ \A k, l \in 1..Len(ret.log) :
              (ret.log[k].ev \in {"store", "warn-store", "warn-commit"}
                  /\ ret.log[l].ev \in {"ref", "warn-ref", "warn-branch"}) => k < l

\* master's target is mapped and its reference written, dev's target is not
\* and a warning was given, in one run
C12_Witness ==
    /\ WalkedBranches
    /\ WellTyped(mgit.mappings)
    /\ StoredEvents # {}
    /\ {Master, Dev} \subseteq DOMAIN git.refs
    /\ IsMapped(mgit.mappings, git.refs[Master])
    /\ Master \in DOMAIN mgit.refs
    /\ ~IsMapped(mgit.mappings, git.refs[Dev])
    /\ Dev \notin DOMAIN mgit.refs
    /\ BranchEvents(Dev, {"warn-branch"}) # {}

\* the identity hash the first mapping of the native hash gives, <<>> if none
MappedHash(mappings, gitHash) ==
    LET i == FirstMapping(mappings, HashString(gitHash))
    IN  IF i = 0 THEN <<>> ELSE mappings[i].MGitHash

\* C13: the run that reaches the HEAD step writes a symbolic identity HEAD
\* naming the branch when the native HEAD is on a branch, writes the mapped
\* identity hash when the native HEAD is detached at a mapped commit, fails
\* with the unresolved-HEAD error and writes no HEAD when it is detached at an
\* unmapped commit, and fails in no other case.
C13_HeadReconstructed ==
    (WalkedBranches /\ WellTyped(mgit.mappings)) =>
        IF git.head.symbolic
        THEN /\ ret.err = ""
             /\ mgit.head = [kind |-> "ref", name |-> git.head.name, hash |-> <<>>]
        ELSE IF IsMapped(mgit.mappings, git.head.hash)
        THEN /\ ret.err = ""
             /\ mgit.head = [kind |-> "hash", name |-> "",
                             hash |-> MappedHash(mgit.mappings, git.head.hash)]
        ELSE /\ ret.err = "could not find MGit hash for detached HEAD"
             /\ mgit.head = NoHead

\* the native commits no mapping names
Unmapped == {g \in DOMAIN git.objects : ~IsMapped(mgit.mappings, g)}

\* the mapping list holds the true triple of a commit of the history in each
\* place, and the store refused no write during the run
OneCommitUnmapped ==
    /\ WalkedBranches
    /\ \A i \in 1..Len(mgit.mappings) : mgit.mappings[i] \in TrueEntries
    /\ Cardinality(Unmapped) = 1
    /\ GitHead(git).ok
    /\ GitHead(git).hash \notin Unmapped
    /\ \A k \in 1..Len(ret.log) : ret.log[k].ev \notin {"warn-store", "warn-ref"}
    /\ ret.err # "error writing HEAD file"

\* C14: with every native commit present and exactly one commit of the
\* history, not the HEAD target, missing from the mapping list, the run ends
\* without error, stores the record of every mapped commit, writes the
\* reference of every branch with a mapped target, and gives exactly one
\* warning, which names the commit without a mapping.
C14_OneWarningForTheUnmappedCommit ==
    OneCommitUnmapped =>
        /\ ret.err = ""
        /\ \A i \in 1..Len(mgit.mappings) :
              /\ mgit.mappings[i].MGitHash \in DOMAIN mgit.objects
              /\ \E k \in StoredEvents : ret.log[k].i = i
        /\ \A b \in DOMAIN git.refs :
              IsMapped(mgit.mappings, git.refs[b]) =>
                  b \in DOMAIN mgit.refs /\ mgit.refs[b] = MappedHash(mgit.mappings, git.refs[b])
        /\ \E k \in 1..Len(ret.log) :
              /\ IsWarning(k)
              /\ \A g \in Unmapped : ret.log[k].val = HashString(g)
              /\ \A l \in 1..Len(ret.log) : IsWarning(l) => l = k

\* every persisted mapping entry names a stored record
MappingsPointAtRecords ==
    \A i \in 1..Len(mgit.mappings) : mgit.mappings[i].MGitHash \in DOMAIN mgit.objects

\* every branch reference written names a stored record
RefsPointAtRecords == \A b \in DOMAIN mgit.refs : mgit.refs[b] \in DOMAIN mgit.objects

\* a HEAD written names a stored record or a written branch reference
HeadPointsAtTarget ==
    /\ mgit.head.kind = "hash" => mgit.head.hash \in DOMAIN mgit.objects
    /\ mgit.head.kind = "ref" => mgit.head.name \in DOMAIN mgit.refs

\* C15: at every point of the clone sequence (fetchMGitMetadata, then
\* reconstructMGitObjects) a persisted mapping entry, a branch reference and
\* HEAD point at something that is already in the identity store.
C15_PointerNeverPrecedesTarget ==
    MappingsPointAtRecords /\ RefsPointAtRecords /\ HeadPointsAtTarget

\* two entries of the list give one native hash two identity hashes
Conflicting(mappings) ==
    \E i, j \in 1..Len(mappings) :
        /\ mappings[i].GitHash = mappings[j].GitHash
        /\ mappings[i].MGitHash # mappings[j].MGitHash

\* C16: a run over an ingested mapping list in which two entries with the same
\* native hash carry different identity hashes is aborted with a
\* mapping-conflict error: it ends in an error and has stored no record and
\* written no reference and no HEAD from the list.
C16_ConflictingMappingsAbort ==
    (WalkedBranches /\ WellTyped(mgit.mappings) /\ Conflicting(mgit.mappings)) =>
        /\ ret.err # ""
        /\ StoredEvents = {}
        /\ mgit.objects = <<>> /\ mgit.refs = <<>> /\ mgit.head = NoHead

\* the outputs of the run that report a record the Commit Store refused
\* because a different record is stored under its identity hash
StoreViolations ==
    {k \in 1..Len(ret.log) : ret.log[k].ev = "warn-store" /\ ret.log[k].name = "corruption"}

\* C17: when the Commit Store reports a violation of its invariant for a
\* record, the run is aborted at once: it ends in an error, the report is its
\* last output, and no reference and no HEAD is written.
C17_StoreViolationAborts ==
    (ret.op = "reconstructMGitObjects" /\ WellTyped(mgit.mappings)) =>
        \A k \in StoreViolations :
            /\ ret.err # ""
            /\ k = Len(ret.log)
            /\ mgit.refs = <<>>
            /\ mgit.head = NoHead

\* the outputs of the run about the i-th mapping entry
EntryEvents(i, kinds) == {k \in 1..Len(ret.log) : ret.log[k].ev \in kinds /\ ret.log[k].i = i}

\* the i-th mapping entry names a native commit the repository does not hold
NativeMissing(i) == NewHash(mgit.mappings[i].GitHash) \notin DOMAIN git.objects

\* the run ended in the HEAD step: without error, or in one of its errors
EndedInHeadStep ==
    ret.err \in {"", "error getting Git HEAD", "error writing HEAD file",
                 "could not find MGit hash for detached HEAD"}

\* C18: a mapping entry whose native commit cannot be loaded is logged and
\* skipped: the run warns about it once and stores no record for it, every
\* other entry is still processed (stored, or warned about), and the run goes
\* on through the branch references to the HEAD step.
C18_MissingNativeCommitSkipped ==
    (WalkedBranches /\ WellTyped(mgit.mappings)) =>
        \A i \in 1..Len(mgit.mappings) :
            NativeMissing(i) =>
                /\ Cardinality(EntryEvents(i, {"warn-commit"})) = 1
                /\ \A k \in EntryEvents(i, {"warn-commit"}) : ret.log[k].val = mgit.mappings[i].GitHash
                /\ EntryEvents(i, {"store", "warn-store"}) = {}
                /\ mgit.mappings[i].MGitHash \notin DOMAIN mgit.objects
                /\ \A j \in 1..Len(mgit.mappings) :
                      ~NativeMissing(j) => Cardinality(EntryEvents(j, {"store", "warn-store"})) = 1
                /\ \A b \in DOMAIN git.refs : BranchEvents(b, {"ref", "warn-ref", "warn-branch"}) # {}
                /\ EndedInHeadStep

\* an entry with a missing native commit between two entries that were stored,
\* and the reference and HEAD written after it
C18_Witness ==
    /\ WalkedBranches
    /\ WellTyped(mgit.mappings)
    /\ Len(mgit.mappings) = 3
    /\ NativeMissing(2)
    /\ EntryEvents(1, {"store"}) # {}
    /\ EntryEvents(3, {"store"}) # {}
    /\ Master \in DOMAIN mgit.refs
    /\ mgit.head.kind = "ref"
    /\ ret.err = ""

-----------------------------------------------------------------------------
(* Claims about HandleMGitVerify                                           *)

\* a verification ran in this step
VerifyStep == ret.op = "reconstructMGitObjects" /\ ret'.op = "HandleMGitVerify"

\* the native commit the stored record under h names
NativeOf(h) == NewHash(mgit.objects[h].GitHash)

\* the record under h names a native commit the repository does not hold, or
\* the identity hash recomputed from its native commit is not h
Faulty(h) ==
    \/ NativeOf(h) \notin DOMAIN git.objects
    \/ HashString(computeMGitHashOver(git.objects[NativeOf(h)], mgit.objects[h].ParentHashes,
                                      mgit.objects[h].Author.Pubkey)) # h

\* the verification left everything alone, loaded the HEAD commit and the
\* stored parents of every commit it loaded, and reported of each loaded
\* commit whether it is faulty
VerifyReadsAndReports ==
    /\ mgit' = mgit /\ git' = git /\ created' = created
    /\ DOMAIN ret'.checked \subseteq DOMAIN mgit.objects
    /\ GetHeadCommit(mgit).ok => GetHeadCommit(mgit).commit.MGitHash \in DOMAIN ret'.checked
    /\ \A h \in DOMAIN ret'.checked :
          /\ ret'.checked[h].ok <=> ~Faulty(h)
          /\ \A j \in 1..Len(mgit.objects[h].ParentHashes) :
                mgit.objects[h].ParentHashes[j] \in DOMAIN mgit.objects
                    => mgit.objects[h].ParentHashes[j] \in DOMAIN ret'.checked

\* C19 as stated: the verification changes nothing, checks every commit it
\* loaded and reports each faulty one, and exits with failure exactly when a
\* loaded commit is faulty.
C19_FailsExactlyOnFaultyCommit ==
    [][VerifyStep =>
          /\ VerifyReadsAndReports
          /\ ret'.exit = 1 <=> \E h \in DOMAIN ret'.checked : Faulty(h)]_vars

\* C19, amended: the verification changes nothing, checks every commit it
\* loaded and reports each faulty one, and exits with failure exactly when the
\* HEAD commit cannot be loaded or a loaded commit is faulty; it exits with
\* success otherwise.
C19_FailsExactlyOnFaultyCommitOrNoHead ==
    [][VerifyStep =>
          /\ VerifyReadsAndReports
          /\ ret'.exit \in {0, 1}
          /\ ret'.exit = 1 <=> \/ ~GetHeadCommit(mgit).ok
                               \/ \E h \in DOMAIN ret'.checked : Faulty(h)]_vars

\* a store with records but no HEAD was verified: failure, nothing checked
C19_Witness ==
    /\ ret.op = "HandleMGitVerify"
    /\ mgit.objects # <<>>
    /\ ~GetHeadCommit(mgit).ok
    /\ ret.checked = <<>>
    /\ ret.exit = 1

-----------------------------------------------------------------------------
(* Claims about a second reconstruction                                    *)

\* reconstructMGitObjects ran over the store its first run left, in this step
SecondRun == ret.op = "reconstructMGitObjects" /\ ret'.op = "reconstructMGitObjectsAgain"

\* C20: a second run of the reconstruction, with the same native history and
\* the same mapping list, leaves every record, every branch reference and the
\* HEAD that the first run stored with the value it had.
C20_SecondRunKeepsTheStore ==
    [][SecondRun =>
          /\ git' = git /\ mgit'.mappings = mgit.mappings
          /\ \A h \in DOMAIN mgit.objects :
                h \in DOMAIN mgit'.objects /\ mgit'.objects[h] = mgit.objects[h]
          /\ \A b \in DOMAIN mgit.refs :
                b \in DOMAIN mgit'.refs /\ mgit'.refs[b] = mgit.refs[b]
          /\ mgit.head # NoHead => mgit'.head = mgit.head]_vars

\* the second run is over: two records, the reference of master and a
\* symbolic HEAD are in the store
C20_Witness ==
    /\ ret.op = "reconstructMGitObjectsAgain"
    /\ ret.err = ""
    /\ Cardinality(DOMAIN mgit.objects) >= 2
    /\ Master \in DOMAIN mgit.refs
    /\ mgit.head.kind = "ref"

-----------------------------------------------------------------------------
(* Claims about the atomicity of the commit operation                      *)

\* C21: whenever MGitCommit returns an error, the failure to read the new
\* commit back included, the native repository is as it was before the call:
\* no commit object added, no branch head and no HEAD moved.
C21_FailedCommitChangesNothing ==
    [][(ret'.op = "MGitCommit" /\ ret'.err # "") => git' = git]_vars

-----------------------------------------------------------------------------
(* Claims about the configuration                                          *)

\* the key is a section and a name with one dot between them
IsSectionName(key) == Cardinality({i \in 1..Len(key) : key[i] = DOT}) = 1

\* the part of such a key before the dot, and the part after it
SectionOf(key) == SubSeq(key, 1, IndexOf(key, DOT) - 1)
NameOf(key) == SubSeq(key, IndexOf(key, DOT) + 1, Len(key))

\* what a config file gives for the key: its value there, "" if the file is
\* absent or unreadable or has no such section or name
FileValue(file, key) ==
    IF /\ file.state = "present"
       /\ SectionOf(key) \in DOMAIN file.Sections
       /\ NameOf(key) \in DOMAIN file.Sections[SectionOf(key)]
    THEN file.Sections[SectionOf(key)][NameOf(key)]
    ELSE <<>>

\* MGIT_<SECTION>_<NAME>
EnvNameOf(key) == TxtMGIT \o ToUpper(SectionOf(key)) \o <<UNDERSCORE>> \o ToUpper(NameOf(key))

\* C22: for a key section.name GetConfigValue returns the environment variable
\* MGIT_<SECTION>_<NAME> if it is set, even to the empty string; otherwise the
\* local config value if non-empty; otherwise the global config value if
\* non-empty; otherwise the default.
C22_ConfigPrecedence ==
    (out.op = "GetConfigValue" /\ IsSectionName(call.key)) =>
        out.value =
            IF EnvNameOf(call.key) \in DOMAIN call.environ
            THEN call.environ[EnvNameOf(call.key)]
            ELSE IF FileValue(call.localFile, call.key) # <<>>
            THEN FileValue(call.localFile, call.key)
            ELSE IF FileValue(call.globalFile, call.key) # <<>>
            THEN FileValue(call.globalFile, call.key)
            ELSE call.defaultValue

\* the variable is set to the empty string while both files hold a value: the
\* call returned the empty string
C22_Witness ==
    /\ out.op = "GetConfigValue"
    /\ IsSectionName(call.key)
    /\ EnvNameOf(call.key) \in DOMAIN call.environ
    /\ call.environ[EnvNameOf(call.key)] = <<>>
    /\ FileValue(call.localFile, call.key) = ValLocal
    /\ FileValue(call.globalFile, call.key) = ValGlobal
    /\ call.defaultValue = ValDefault
    /\ out.value = <<>>

-----------------------------------------------------------------------------
(* Claims about the command line                                           *)

-----------------------------------------------------------------------------
(* Claims about the steps of cloneRepository                               *)

\* the five steps the claim orders
OrderedSteps == SubSeq(CloneSteps, 2, Len(CloneSteps))

\* the steps the call ran after creating the directory
StepsRun == SubSeq(out.log, 2, Len(out.log))

\* C24: a returned cloneRepository has run its steps in the order info fetch,
\* native clone, metadata fetch, reconstruction, config.  A failed info fetch
\* or native clone is the last step run and the call returns its error; after
\* both succeeded all five steps are run, a failed metadata fetch or
\* reconstruction is a warning only, and the call returns success exactly when
\* the config was written.
C24_CloneStepsInOrder ==
    (call.op = "cloneRepository" /\ out.returned /\ Len(out.log) >= 2) =>
        /\ Len(StepsRun) <= Len(OrderedSteps)
        /\ StepsRun = SubSeq(OrderedSteps, 1, Len(StepsRun))
        /\ "fetchRepositoryInfo" \in call.fails =>
              StepsRun = <<"fetchRepositoryInfo">> /\ out.err # ""
        /\ ("fetchRepositoryInfo" \notin call.fails /\ "gitClone" \in call.fails) =>
              StepsRun = <<"fetchRepositoryInfo", "gitClone">> /\ out.err # ""
        /\ ("fetchRepositoryInfo" \notin call.fails /\ "gitClone" \notin call.fails) =>
              /\ StepsRun = OrderedSteps
              /\ out.err = "" <=> "setupMGitConfig" \notin call.fails
              /\ \A s \in {"fetchMGitMetadata", "reconstructMGitObjects"} :
                    s \in call.fails => \E k \in 1..Len(out.warnings) : out.warnings[k] = s

-----------------------------------------------------------------------------
(* Claims about the traversals                                             *)

\* the parent entries of the store: a place in the parent list of a record
ParentEntries(objects) ==
    UNION {{<<h, j>> : j \in 1..Len(objects[h].ParentHashes)} : h \in DOMAIN objects}

\* no element occurs twice in the sequence
NoDuplicates(s) == \A i, j \in 1..Len(s) : s[i] = s[j] => i = j

\* C25: the traversals of HandleMGitLog and HandleMGitVerify terminate on
\* every finite store, with cycles and with parents that have no record: a
\* traversal that has not returned can take a step, and it has run at most one
\* loop iteration for HEAD and one for each parent entry of the store; each
\* loaded commit is processed at most once.
C25_TraversalsTerminate ==
    /\ out.returned \/ ENABLED NextWalk
    /\ out.iterations <= 1 + Cardinality(ParentEntries(mgit.objects))
    /\ NoDuplicates(out.processed)
    /\ \A k \in 1..Len(out.processed) : out.processed[k] \in DOMAIN mgit.objects

\* the verification has walked a store with a cycle through HEAD and a parent
\* without a record: three commits loaded, one hash reported
C25_Witness ==
    /\ out.op = "HandleMGitVerify"
    /\ out.returned
    /\ {KA, KB, KC} \subseteq DOMAIN mgit.objects
    /\ mgit.objects[KA].ParentHashes = <<KB, KC>>
    /\ mgit.objects[KB].ParentHashes = <<KA>>
    /\ mgit.objects[KC].ParentHashes = <<KD, KA>>
    /\ out.processed = <<KA, KB, KC>>
    /\ out.warned = <<KD>>
-----------------------------------------------------------------------------
(* Claims about what a successful verification covers                      *)

RECURSIVE ReachableHashes(_, _)
\* the identity hashes reachable from a set of hashes through the parent
\* hashes of the stored records
ReachableHashes(objects, from) ==
    LET ParentsOf(h) == {objects[h].ParentHashes[j] : j \in 1..Len(objects[h].ParentHashes)}
        more == from \cup UNION {ParentsOf(h) : h \in from \cap DOMAIN objects}
    IN  IF more = from THEN from ELSE ReachableHashes(objects, more)

\* the identity hashes reachable from HEAD
ReachableFromHead ==
    IF GetHeadCommit(mgit).ok
    THEN ReachableHashes(mgit.objects, {GetHeadCommit(mgit).commit.MGitHash})
    ELSE {}

\* C26: the verification exits with status 0 only if every identity hash
\* reachable from HEAD through the stored parent hashes was loaded from the
\* store, its native commit exists and its recomputed hash equals its key.
C26_SuccessCoversEveryReachableHash ==
    [][(VerifyStep /\ ret'.exit = 0) =>
          /\ GetHeadCommit(mgit).ok
          /\ \A h \in ReachableFromHead :
                /\ h \in DOMAIN mgit.objects
                /\ h \in DOMAIN ret'.checked
                /\ ~Faulty(h)]_vars
-----------------------------------------------------------------------------
(* Claims about what resolveRevision returns                               *)

\* C27: whenever resolveRevision returns without error, the hash returned is
\* the hash of a commit of the native repository, whichever strategy
\* produced it.
C27_ResolvedHashIsACommit ==
    (res.impl = "resolveRevision" /\ res.err = "") => res.hash \in rrepo.commits

\* no strategy before the identity-hash strategy matched the recorded input
NoEarlierStrategy ==
    /\ ~(res.rev = TxtHEAD /\ RepoHead(rrepo).ok)
    /\ NoReference(rrepo, res.rev)
    /\ ~(Len(res.rev) = HexSize /\ FullHashExists(rrepo, res.rev))
    /\ PrefixCandidates(rrepo, res.rev) = {}

-----------------------------------------------------------------------------
(* Claims about the commit command                                         *)

\* HandleMGitCommit ran in this step
HandleCommitStep == call.op = "HandleMGitCommit" /\ out = NoOut /\ out'.op = "HandleMGitCommit"

\* the value GetConfigValue gives the key in the recorded call
Configured(key) ==
    GetConfigValueOfKey(key, <<>>, call.environ, call.localFile, call.globalFile)

\* C29: when user.name or user.email resolves to the empty string,
\* HandleMGitCommit exits with a non-zero status before calling MGitCommit:
\* no native commit is created and no identity hash is computed.
C29_NoIdentityNoCommit ==
    [][(HandleCommitStep /\ (Configured(KeyUserName) = <<>> \/ Configured(KeyUserEmail) = <<>>))
          => /\ out'.exit # 0
             /\ ~out'.called
             /\ git' = git
             /\ ret' = ret /\ ret'.calls = <<>>
             /\ created' = created /\ hcall' = hcall]_vars

\* a message was given, the name is configured and MGIT_USER_EMAIL is set to
\* the empty string over a configured e-mail: the command exited with status 1
\* and the repository has no commit
C29_Witness ==
    /\ out.op = "HandleMGitCommit"
    /\ MessageOf(call.args) # <<>>
    /\ Configured(KeyUserName) # <<>>
    /\ EnvOf(KeyUserEmail) \in DOMAIN call.environ
    /\ ConfigGet(LoadConfig(call.localFile), TxtUser, TxtEmail) # <<>>
    /\ Configured(KeyUserEmail) = <<>>
    /\ out.exit = 1
    /\ ~out.called
    /\ git = EmptyGit
-----------------------------------------------------------------------------
(* Claims about the addresses a clone asks                                 *)

\* C30: for every URL base + "/" + id, with or without ".git" and a trailing
\* "/" after it, extractRepoID returns id and extractServerBaseURL returns
\* base, so every endpoint starts with base + "/api/mgit/repos/" + id.
C30_UrlSplitsIntoBaseAndId ==
    out.op = "extract" =>
        /\ out.repoID = call.id
        /\ out.serverBaseURL = call.base
        /\ out.endpoint = call.base \o TxtApiRepos \o call.id

=============================================================================
